---- MODULE Spec2Model ----
(***************************************************************************)
(* Model of the goonedin job monitor: the scraper loop of                  *)
(* backend/app/main.py (fetch fan-out, cycle statistics, pool partition,   *)
(* filters, Redis dedup, alert fan-out), the source adapters' retry loops  *)
(* and item filters, the Redis config store, the WebSocket connection      *)
(* manager and the administrative endpoints that share the Redis state.    *)
(*                                                                         *)
(***************************************************************************)
EXTENDS Integers, Sequences, FiniteSets, TLC

\* ------------------------------------------------------------------------
\* Strings
\* ------------------------------------------------------------------------
\* The string values the model uses. The state holds them as strings; lower()
\* and the substring test "a in b" are computed on their characters.
S_Backend == "Backend"
S_backend == "backend"
S_senior == "senior"
S_Veterinarian == "Veterinarian"
S_SeniorBackend == "Senior Backend"
S_Acme == "Acme"
S_ACME == "ACME"
S_Infosys == "Infosys"
S_UnitedStates == "United States"
S_FidelityInvestments == "Fidelity Investments"
S_StateStreet == "State Street"
S_MathWorks == "MathWorks"
S_Analyst == "Analyst"
S_Berlin == "Berlin"
S_remote == "remote"

\* The characters of a string
Chars(s) ==
    CASE s = S_Backend -> <<"B","a","c","k","e","n","d">>
      [] s = S_backend -> <<"b","a","c","k","e","n","d">>
      [] s = S_senior -> <<"s","e","n","i","o","r">>
      [] s = S_Veterinarian -> <<"V","e","t","e","r","i","n","a","r","i","a","n">>
      [] s = S_SeniorBackend -> <<"S","e","n","i","o","r"," ","B","a","c","k","e","n","d">>
      [] s = S_Acme -> <<"A","c","m","e">>
      [] s = S_ACME -> <<"A","C","M","E">>
      [] s = S_Infosys -> <<"I","n","f","o","s","y","s">>
      [] s = S_UnitedStates -> <<"U","n","i","t","e","d"," ","S","t","a","t","e","s">>
      [] s = S_FidelityInvestments -> <<"F","i","d","e","l","i","t","y"," ","I","n","v","e","s","t","m","e","n","t","s">>
      [] s = S_StateStreet -> <<"S","t","a","t","e"," ","S","t","r","e","e","t">>
      [] s = S_MathWorks -> <<"M","a","t","h","W","o","r","k","s">>
      [] s = S_Analyst -> <<"A","n","a","l","y","s","t">>
      [] s = S_Berlin -> <<"B","e","r","l","i","n">>
      [] s = S_remote -> <<"r","e","m","o","t","e">>
      [] s = "" -> <<>>

UpperCase ==
    <<"A","B","C","D","E","F","G","H","I","J","K","L","M",
      "N","O","P","Q","R","S","T","U","V","W","X","Y","Z">>

LowerCase ==
    <<"a","b","c","d","e","f","g","h","i","j","k","l","m",
      "n","o","p","q","r","s","t","u","v","w","x","y","z">>

\* str.lower() on one character
LowerChar(c) ==
    IF \E i \in DOMAIN UpperCase : UpperCase[i] = c
    THEN LowerCase[CHOOSE i \in DOMAIN UpperCase : UpperCase[i] = c]
    ELSE c

\* s.lower(), as characters
Lower(s) == [i \in DOMAIN Chars(s) |-> LowerChar(Chars(s)[i])]

\* Python's "sub in s" on the characters of two strings
Contains(sub, s) ==
    \E i \in 0..(Len(s) - Len(sub)) : SubSeq(s, i + 1, i + Len(sub)) = sub

\* any(kw in text for kw in list) and any(x.lower() in text for x in list)
AnyIn(list, text) == \E i \in DOMAIN list : Contains(Chars(list[i]), text)
AnyLowerIn(list, text) == \E i \in DOMAIN list : Contains(Lower(list[i]), text)

\* Optional values: None or Some(x)
None == <<>>
Some(x) == <<x>>
Get(opt) == opt[1]

\* ------------------------------------------------------------------------
\* Program constants
\* ------------------------------------------------------------------------
JOB_RECENCY_MINUTES == 600
SEEN_JOB_TTL_SECONDS == 7200
FIDELITY_TTL_SECONDS == 86400
SLEEP_SECONDS == 240
max_retries == 3
COOKIE_VALIDITY_HOURS == 2
MINISITES_RECENT_MINUTES == 5

\* Expiry of a key written with SET (no TTL)
NoExpiry == None

\* ------------------------------------------------------------------------
\* Bounds of the model
\* ------------------------------------------------------------------------
MaxCycles == 2      \* cycles started by the loop in one behaviour
MaxBatch == 1       \* raw upstream items delivered to the adapters per cycle
MaxEvents == 1      \* disturbances in one behaviour: faulty adapter calls,
                    \* Redis outages and administrative requests together
MaxSockets == 1     \* WebSocket clients that ever connect
MaxSubscribers == 3 \* subscribers of one broadcast (SpecBroadcast)
MaxCalls == 3       \* adapter results of one cycle (SpecStats)
MaxQueue == 2       \* postings the adapters return in one cycle (SpecProcess)

\* ------------------------------------------------------------------------
\* Config store (core/redis_config.py)
\* ------------------------------------------------------------------------
CONFIG_KEYS ==
    {"target_keywords", "target_locations", "blocked_companies", "title_filter_keywords"}

\* The compiled-in defaults, abridged to the entries the model's postings
\* can meet (the source lists 14, 1, 38 and 10 entries).
DEFAULT_TARGET_KEYWORDS == <<S_Backend>>
DEFAULT_TARGET_LOCATIONS == <<S_UnitedStates>>
INITIAL_BLOCKED_COMPANIES == <<S_Infosys>>
DEFAULT_TITLE_FILTER_KEYWORDS == <<S_senior, S_Veterinarian>>

\* The module-level default list objects. get_config_list returns the default
\* object itself, so a caller that appends to its result changes the default:
\* dflt_blocked is the current content of DEFAULT_BLOCKED_COMPANIES.
DefaultOf(key, dflt_blocked) ==
    CASE key = "target_keywords" -> DEFAULT_TARGET_KEYWORDS
      [] key = "target_locations" -> DEFAULT_TARGET_LOCATIONS
      [] key = "blocked_companies" -> dflt_blocked
      [] key = "title_filter_keywords" -> DEFAULT_TITLE_FILTER_KEYWORDS
      [] OTHER -> <<>>

\* Sensitivity variant of GetConfigList: a stored empty list counts as unset
GetConfigList_emptyIsUnset(up, cfg, key, default) ==
    IF key \notin CONFIG_KEYS THEN default
    ELSE IF ~up THEN default
    ELSE IF cfg[key] = None \/ cfg[key] = Some(<<>>) THEN default
    ELSE Get(cfg[key])

\* get_config_list(redis_client, key, default): the stored JSON text is a
\* non-empty string even for "[]", so every stored list is returned; an
\* unknown name, an unset key or a failing read give the default.
GetConfigList(up, cfg, key, default) ==
    IF key \notin CONFIG_KEYS THEN default
    ELSE IF ~up THEN default
    ELSE IF cfg[key] = None THEN default
    ELSE Get(cfg[key])

\* set_config_list(redis_client, key, value): [ok, cfg']
SetConfigList(up, cfg, key, value) ==
    IF key \notin CONFIG_KEYS THEN [ok |-> FALSE, cfg |-> cfg]
    ELSE IF ~up THEN [ok |-> FALSE, cfg |-> cfg]
    ELSE [ok |-> TRUE, cfg |-> [cfg EXCEPT ![key] = Some(value)]]

\* seed_config_if_missing(redis_client): the first failing call ends the loop;
\* with Redis reachable every unset key gets its default.
SeedConfigIfMissing(up, cfg, dflt_blocked) ==
    IF ~up THEN cfg
    ELSE [k \in CONFIG_KEYS |-> IF cfg[k] = None THEN Some(DefaultOf(k, dflt_blocked)) ELSE cfg[k]]

\* The process-static lists settings.TITLE_FILTER_KEYWORDS and
\* settings.BLOCKED_COMPANIES read by the LinkedIn, Jobright, mini-sites and
\* MathWorks adapters: loaded once at import, never re-read from Redis.
SETTINGS_TITLE_FILTER_KEYWORDS == DEFAULT_TITLE_FILTER_KEYWORDS
SETTINGS_BLOCKED_COMPANIES == INITIAL_BLOCKED_COMPANIES

\* ------------------------------------------------------------------------
\* Source adapters (services/scraper_*.py)
\* ------------------------------------------------------------------------
Sources == {"LinkedIn", "Jobright", "JobrightMiniSites", "Fidelity", "StateStreet", "MathWorks"}

\* What one request attempt can meet: an HTTP status, one of the three
\* retried httpx errors ("transient"), or any other exception ("error").
Outcomes == {"200", "500", "401", "transient", "error"}

\* An upstream item as the site returns it. An empty title is an item the
\* adapter cannot use; age is the seconds from the time the item shows to the
\* adapter's clock (None: no time given); zone is the UTC offset, in seconds,
\* written with that time (None: written without an offset);
\* posted_on is Fidelity's postedOn text; location is its location text.
RawItemZoned(id, title, company, age, zone, posted_on, location) ==
    [external_id |-> id, title |-> title, company |-> company, age |-> age,
     zone |-> zone, posted_on |-> posted_on, location |-> location]

\* An item whose time is written in UTC ("Z", or relative to now)
RawItemAt(id, title, company, age, posted_on, location) ==
    RawItemZoned(id, title, company, age, Some(0), posted_on, location)

\* An item located in the United States
RawItem(id, title, company, age, posted_on) ==
    RawItemAt(id, title, company, age, posted_on, S_UnitedStates)

Feed(source) ==
    CASE source = "LinkedIn" ->
            { RawItem("L1", S_Backend, S_Acme, Some(120), ""),
              RawItem("L2", S_SeniorBackend, S_Acme, Some(120), ""),
              RawItem("L0", "", S_Acme, Some(120), "") }
      [] source = "Jobright" ->
            { RawItem("J1", S_SeniorBackend, S_Acme, Some(120), ""),
              RawItem("J0", "", S_Acme, Some(120), "") }
      [] source = "JobrightMiniSites" ->
            { RawItem("M1", S_Backend, S_Acme, Some(120), ""),
              RawItem("M0", "", S_Acme, Some(120), "") }
      [] source = "Fidelity" ->
            { RawItem("F1", S_Veterinarian, S_FidelityInvestments, None, "Posted Today"),
              RawItem("F2", S_SeniorBackend, S_FidelityInvestments, None, "Posted Today"),
              RawItem("F0", "", S_FidelityInvestments, None, "Posted Today") }
      [] source = "StateStreet" ->
            { RawItem("S1", S_Backend, S_StateStreet, Some(120), ""),
              RawItem("S0", "", S_StateStreet, Some(120), "") }
      [] source = "MathWorks" ->
            { RawItem("W1", S_Backend, S_MathWorks, None, ""),
              RawItem("W0", "", S_MathWorks, None, "") }

\* JobCreate(...)
JobCreate(source, item, company, posted_at) ==
    [source |-> source, external_id |-> item.external_id, title |-> item.title,
     company |-> company, location |-> item.location, posted_at |-> posted_at]

\* parse_posted_at / parse_jobright_date: the posting time, None when not given
\* A datetime: its wall-clock reading in seconds and its tzinfo (None: naive,
\* Some(offset): aware)
DateTime(wall, tzinfo) == [wall |-> wall, tzinfo |-> tzinfo]

\* datetime.now(timezone.utc) and the .replace(tzinfo=timezone.utc) results
UtcDateTime(t) == DateTime(t, Some(0))

PostedAt(age, now) == IF age = None THEN None ELSE Some(UtcDateTime(now - Get(age)))

\* LinkedIn's parse_posted_at: datetime.fromisoformat keeps the offset the
\* attribute was written with and returns a naive datetime when there is none
PostedAtZoned(age, zone, now) ==
    IF age = None THEN None ELSE Some(DateTime(now - Get(age), zone))

\* is_posted_today(posted_on): posted_on.lower() == "posted today"
is_posted_today(posted_on) == posted_on # "" /\ posted_on = "Posted Today"

\* is_posted_within_minutes(posted_at, minutes) / is_posted_recently(date_created, minutes)
is_posted_within_minutes(age, minutes) == age # None /\ Get(age) <= minutes * 60

\* The request loop "for attempt in range(1, max_retries + 1)".
\*   style "first": LinkedIn breaks after the first response, whatever its status.
\*   style "auth":  Jobright returns on 401/403 and breaks on 200.
\*   style "ok":    the others break on 200 only.
\* Result: kind "response" (the loop ended, status = the last response's status
\* or "" when there was none), "raised" (an exception reached the adapter's outer handler) or
\* "auth" (the Jobright early return), with retries as the adapter reports it.
RECURSIVE RequestLoop(_, _, _, _, _)
RequestLoop(style, script, attempt, retries_used, status) ==
    IF attempt > max_retries
    THEN [kind |-> "response", status |-> status, retries |-> retries_used]
    ELSE LET o == script[attempt] IN
         IF o = "transient"
         THEN IF attempt < max_retries
              THEN RequestLoop(style, script, attempt + 1, attempt, status)
              ELSE [kind |-> "raised", status |-> status, retries |-> attempt]
         ELSE IF o = "error"
         THEN [kind |-> "raised", status |-> status, retries |-> retries_used]
         ELSE IF style = "auth" /\ o \in {"401", "403"}
         THEN [kind |-> "auth", status |-> o, retries |-> attempt]
         ELSE IF style = "first" \/ o = "200"
         THEN [kind |-> "response", status |-> o, retries |-> retries_used]
         ELSE RequestLoop(style, script, attempt + 1, retries_used, o)

StyleOf(source) ==
    CASE source = "LinkedIn" -> "first"
      [] source = "Jobright" -> "auth"
      [] OTHER -> "ok"

\* Sources whose body is JSON (response.json() can raise); the other two
\* parse HTML with BeautifulSoup, which accepts any text.
JsonSources == {"Jobright", "JobrightMiniSites", "Fidelity", "StateStreet"}

\* The per-item body of each adapter's parse loop: Some(the JobCreate it
\* appends), or None when the item is skipped. titles/blocked are the lists the adapter
\* read (Redis config for Fidelity and State Street, settings for the rest).
ParseItem(source, item, titles, blocked, now) ==
    IF item.title = "" THEN None
    ELSE CASE source = "LinkedIn" ->
              IF AnyIn(titles, Lower(item.title)) THEN None
              ELSE IF AnyLowerIn(blocked, Lower(item.company)) THEN None
              ELSE Some(JobCreate(source, item, item.company,
                                  PostedAtZoned(item.age, item.zone, now)))
           [] source = "Jobright" ->
              IF AnyLowerIn(blocked, Lower(item.company)) THEN None
              ELSE Some(JobCreate(source, item, item.company, PostedAt(item.age, now)))
           [] source = "JobrightMiniSites" ->
              IF AnyLowerIn(blocked, Lower(item.company)) THEN None
              ELSE Some(JobCreate(source, item, item.company, PostedAt(item.age, now)))
           [] source = "Fidelity" ->
              IF AnyIn(titles, Lower(item.title)) THEN None
              ELSE IF ~is_posted_today(item.posted_on) THEN None
              ELSE IF AnyLowerIn(blocked, Lower(S_FidelityInvestments))
                   THEN None
              ELSE Some(JobCreate(source, item, S_FidelityInvestments, Some(UtcDateTime(now))))
           [] source = "StateStreet" ->
              IF AnyIn(titles, Lower(item.title)) THEN None
              ELSE IF ~is_posted_within_minutes(item.age, 5) THEN None
              ELSE IF AnyLowerIn(blocked, Lower(S_StateStreet))
                   THEN None
              ELSE Some(JobCreate(source, item, S_StateStreet, PostedAt(item.age, now)))
           [] source = "MathWorks" ->
              IF AnyLowerIn(titles, Lower(item.title)) THEN None
              ELSE IF AnyLowerIn(blocked, Lower(S_MathWorks))
                   THEN None
              ELSE Some(JobCreate(source, item, S_MathWorks, None))

\* Whether a parsed posting also goes to the result's recent_jobs.
IsRecentItem(source, item) ==
    CASE source = "JobrightMiniSites" -> is_posted_within_minutes(item.age, MINISITES_RECENT_MINUTES)
      [] source \in {"Fidelity", "StateStreet", "MathWorks"} -> TRUE
      [] OTHER -> FALSE

RECURSIVE ParseAll(_, _, _, _, _, _)
ParseAll(source, items, titles, blocked, now, recentOnly) ==
    IF items = <<>> THEN <<>>
    ELSE LET j == ParseItem(source, Head(items), titles, blocked, now)
             rest == ParseAll(source, Tail(items), titles, blocked, now, recentOnly)
         IN IF j = None \/ (recentOnly /\ ~IsRecentItem(source, Head(items)))
            THEN rest ELSE j \o rest

FailedResult(retries) ==
    [jobs |-> <<>>, retries |-> retries, failed |-> TRUE, recent_jobs |-> <<>>]

\* fetch_*_jobs: the dict the adapter returns for a request script and a
\* response body [parsable, items]. A result without
\* a "recent_jobs" key (LinkedIn, Jobright) carries the empty sequence here.
FetchResult(source, script, body, titles, blocked, now) ==
    LET o == RequestLoop(StyleOf(source), script, 1, 0, "") IN
    IF o.kind = "raised" THEN FailedResult(o.retries)
    ELSE IF o.kind = "auth" THEN FailedResult(o.retries)
    ELSE IF o.status # "200" THEN FailedResult(o.retries)
    ELSE IF ~body.parsable
         THEN IF source \in JsonSources THEN FailedResult(o.retries)
              ELSE [jobs |-> <<>>, retries |-> o.retries, failed |-> FALSE,
                    recent_jobs |-> <<>>]
    ELSE [jobs |-> ParseAll(source, body.items, titles, blocked, now, FALSE),
          retries |-> o.retries, failed |-> FALSE,
          recent_jobs |-> ParseAll(source, body.items, titles, blocked, now, TRUE)]

\* ------------------------------------------------------------------------
\* WebSocket connection manager (api/websocket.py)
\* ------------------------------------------------------------------------
\* list.remove(x): drops the first occurrence
RECURSIVE Remove(_, _)
Remove(list, x) ==
    IF list = <<>> THEN <<>>
    ELSE IF Head(list) = x THEN Tail(list)
    ELSE <<Head(list)>> \o Remove(Tail(list), x)

\* ConnectionManager.disconnect
Disconnected(conns, w) ==
    IF \E i \in DOMAIN conns : conns[i] = w THEN Remove(conns, w) ELSE conns

\* ConnectionManager.broadcast: "for connection in self.active_connections"
\* walks the list by position while disconnect() removes from the same list.
\* failing is the set of connections whose send_json raises. Result: the list
\* after the loop and the connections the message was sent to, in order.
RECURSIVE BroadcastFrom(_, _, _, _)
BroadcastFrom(conns, i, failing, sent) ==
    IF i > Len(conns) THEN [conns |-> conns, sent |-> sent]
    ELSE IF conns[i] \in failing
         THEN BroadcastFrom(Disconnected(conns, conns[i]), i + 1, failing, sent)
         ELSE BroadcastFrom(conns, i + 1, failing, Append(sent, conns[i]))

Broadcast(conns, failing) == BroadcastFrom(conns, 1, failing, <<>>)

\* ------------------------------------------------------------------------
\* Dedup cache (main.py)
\* ------------------------------------------------------------------------
\* job_key = f"seen_job:{job.source}:{job.external_id}"
JobKey(job) == <<job.source, job.external_id>>

\* A key Redis still holds at time t
Live(cache, key, t) ==
    key \in DOMAIN cache /\ (cache[key].expiry = NoExpiry \/ t < Get(cache[key].expiry))

\* Sensitivity variants of is_already_seen: one that never finds a record,
\* one that answers from the cache even when the call raises
is_already_seen_never(up, cache, key, t) == FALSE
is_already_seen_strict(up, cache, key, t) == Live(cache, key, t)

\* is_already_seen(job_key): bool(exists), False when the call raises
is_already_seen(up, cache, key, t) ==
    IF ~up THEN FALSE ELSE Live(cache, key, t)

\* Sensitivity variant of mark_as_seen: the record is never stored
mark_as_seen_lost(up, cache, key, job_data, ttl_seconds, t) == cache

\* mark_as_seen(job_key, job_data, ttl_seconds): SETEX, nothing on failure
mark_as_seen(up, cache, key, job_data, ttl_seconds, t) ==
    IF ~up THEN cache
    ELSE LET ttl == IF ttl_seconds # None THEN Get(ttl_seconds) ELSE SEEN_JOB_TTL_SECONDS
         IN [k \in DOMAIN cache \cup {key} |->
                IF k = key THEN [value |-> job_data, expiry |-> Some(t + ttl)] ELSE cache[k]]

\* Sensitivity variant of mark_as_seen_permanent: the record is stored with an
\* expiry, one day after the process start
mark_as_seen_permanent_expiring(up, cache, key, job_data) ==
    IF ~up THEN cache
    ELSE [k \in DOMAIN cache \cup {key} |->
            IF k = key THEN [value |-> job_data, expiry |-> Some(FIDELITY_TTL_SECONDS)]
            ELSE cache[k]]

\* mark_as_seen_permanent(job_key, job_data): SET, nothing on failure
mark_as_seen_permanent(up, cache, key, job_data) ==
    IF ~up THEN cache
    ELSE [k \in DOMAIN cache \cup {key} |->
            IF k = key THEN [value |-> job_data, expiry |-> NoExpiry] ELSE cache[k]]

\* Redis drops the keys whose TTL has run out
Expire(cache, t) ==
    [k \in {x \in DOMAIN cache : Live(cache, x, t)} |-> cache[k]]

\* redis DEL of a set of keys
Delete(cache, keys) == [k \in DOMAIN cache \ keys |-> cache[k]]

\* is_recent(posted_at)
\* The UTC instant of an aware datetime
Instant(dt) == dt.wall - Get(dt.tzinfo)

\* Sensitivity variants of is_recent: a naive posted_at is not accepted; the
\* window's last second is outside
is_recent_aware_only(posted_at, t) ==
    IF posted_at = None THEN FALSE
    ELSE IF Get(posted_at).tzinfo = None THEN FALSE
    ELSE (t - Instant(Get(posted_at))) <= JOB_RECENCY_MINUTES * 60

\* is_recent(posted_at): t is datetime.now(timezone.utc)
is_recent(posted_at, t) ==
    IF posted_at = None THEN FALSE
    ELSE LET given == Get(posted_at)
             aware == IF given.tzinfo = None THEN UtcDateTime(given.wall) ELSE given
         IN (t - Instant(aware)) <= JOB_RECENCY_MINUTES * 60

\* Sensitivity variant of matches_target_keywords: the keyword is compared
\* as written, without lower()
matches_target_keywords_cased(job, keywords) ==
    AnyIn(keywords, Lower(job.title))

\* matches_target_keywords(job): reads the keyword list from Redis itself
matches_target_keywords(job, keywords) ==
    AnyLowerIn(keywords, Lower(job.title))

\* ------------------------------------------------------------------------
\* Cycle statistics and pool partition (main.py, run_scraper_loop)
\* ------------------------------------------------------------------------
CountFailed(results) == Cardinality({i \in DOMAIN results : results[i].failed})
CountRetried(results) == Cardinality({i \in DOMAIN results : results[i].retries > 0})
CountRetriedAndPassed(results) ==
    Cardinality({i \in DOMAIN results : results[i].retries > 0 /\ ~results[i].failed})

\* Sensitivity variant of CycleStats: every call is counted as passed
CycleStats_allPassed(results) ==
    [total_calls |-> Len(results),
     failed |-> CountFailed(results),
     passed |-> Len(results),
     retried |-> CountRetried(results),
     retried_and_passed |-> CountRetriedAndPassed(results),
     success_rate |-> [num |-> 100, den |-> 1]]

\* total_calls .. success_rate; the rate is kept as the exact fraction num/den
CycleStats(results) ==
    LET total_calls == Len(results)
        failed == CountFailed(results)
        passed == total_calls - failed
    IN [total_calls |-> total_calls,
        failed |-> failed,
        passed |-> passed,
        retried |-> CountRetried(results),
        retried_and_passed |-> CountRetriedAndPassed(results),
        success_rate |-> IF total_calls # 0
                         THEN [num |-> passed * 100, den |-> total_calls]
                         ELSE [num |-> 0, den |-> 1]]

\* Index of the list a result's postings are collected in:
\* 1 all_jobs, 2 minisites_recent_jobs, 3 fidelity_jobs, 4 statestreet_jobs,
\* 5 mathworks_jobs
ListOf(r) ==
    IF r.recent_jobs # <<>>
    THEN CASE r.recent_jobs[1].source = "JobrightMiniSites" -> 2
           [] r.recent_jobs[1].source = "Fidelity" -> 3
           [] r.recent_jobs[1].source = "StateStreet" -> 4
           [] r.recent_jobs[1].source = "MathWorks" -> 5
           [] OTHER -> 1
    ELSE 1

\* "for r in results": the five lists after the collection loop
RECURSIVE Collect(_, _)
Collect(results, lists) ==
    IF results = <<>> THEN lists
    ELSE LET r == Head(results)
             k == ListOf(r)
             add == IF k = 1 THEN r.jobs ELSE r.recent_jobs
         IN Collect(Tail(results), [lists EXCEPT ![k] = @ \o add])

EmptyLists == << <<>>, <<>>, <<>>, <<>>, <<>> >>

\* Sensitivity variant of TtlOfList: every loop leaves ttl_seconds at its default
TtlOfList_default(k) == None

\* ttl_seconds the processing loop of list k passes to mark_as_seen
\* (None: the parameter's default); list 5 calls mark_as_seen_permanent instead
TtlOfList(k) == IF k = 3 THEN Some(FIDELITY_TTL_SECONDS) ELSE None

\* ------------------------------------------------------------------------
\* State
\* ------------------------------------------------------------------------
VARIABLES
    now,                \* wall clock, seconds
    cycle,              \* cycles started so far
    pc,                 \* where run_scraper_loop is
    target_keywords,    \* the loop's local, read at the top of the cycle
    calls,              \* the sources of the coroutines handed to gather, in order
    results,            \* gather's results so far: call index -> result dict
    lists,              \* all_jobs, minisites_recent_jobs, fidelity_jobs,
                        \* statestreet_jobs, mathworks_jobs: postings not yet iterated
    cur,                \* the posting in the loop body: Some([job, list]) or None
    stats,              \* the cycle statistics logged last
    redisUp,            \* whether Redis calls succeed
    outages,            \* Redis outages so far
    seen,               \* Redis keys seen_job:* -> [value, expiry]
    config,             \* Redis keys config:* -> Some(list) or None
    DEFAULT_BLOCKED_COMPANIES,  \* the module-level default list object
    adminOps,           \* administrative requests so far
    active_connections, \* manager.active_connections
    socket,             \* state of each WebSocket: "new", "open", "broken", "closed"
    cached_cookies,     \* jobright_auth._cached_cookies ("" or "cookie")
    cookie_expiry,      \* jobright_auth._cookie_expiry (None or Some(time))
    JOBRIGHT_COOKIES,   \* settings.JOBRIGHT_COOKIES ("" when not set)
    auth,               \* history of the last Jobright fetch: where its cookie
                        \* came from and how its request loop ended
    proxyMalformed,     \* settings.PROXY_URL is set to a URL httpx rejects
    handlers,           \* POST /jobs/block requests being served, one record each
    sending,            \* the send a stepwise manager.broadcast awaits, or None
    authTasks,          \* _auth_lock, the logins in progress, the last cookie returned
    batch,              \* raw items delivered in this cycle
    faults,             \* faulty calls of upstream services (adapters, Telegram)
    windowEnd,          \* history: key -> expiry given to its record at the last alert
    trace,              \* history: outcome of the dedup check of the last posting,
                        \* then the fan-out steps taken for it, in order
    delivered,          \* history: connections the last broadcast sent its frame to
    event,              \* history: the message of the last broadcast (None or
                        \* Some([type, company, external_ids]))
    blocking,           \* the POST /jobs/block request being served (None or
                        \* Some([company, stage, deleted_job_ids]))
    configuredIn,       \* history: the cycle in which the last administrative
                        \* request was served (0: before the first cycle)
    telegram,           \* history: how the last POST to the Telegram API ended
    reply,              \* history: the last call of get_config_list (None or
                        \* Some([key, default, value]))
    fetching,           \* the fetch coroutines gather started that have not ended:
                        \* [cycle, call, source] (followed in SpecGather)
    request             \* one adapter fetch followed attempt by attempt (SpecRetry):
                        \* None or Some([source, attempt, retries_used, status,
                        \* played, result])

vars ==
    <<now, cycle, pc, target_keywords, calls, results, lists, cur, stats, redisUp,
      outages, seen, config, DEFAULT_BLOCKED_COMPANIES, adminOps, active_connections,
      socket, cached_cookies, cookie_expiry, JOBRIGHT_COOKIES, auth, proxyMalformed, handlers, sending, authTasks,
      batch, faults, windowEnd, trace, delivered, event, blocking, configuredIn, telegram,
      reply, fetching, request>>

loopVars == <<pc, target_keywords, calls, results, lists, cur, stats, batch, faults, trace>>
redisVars == <<redisUp, outages, seen, config>>
wsVars == <<active_connections, socket, delivered, event>>
authVars == <<cached_cookies, cookie_expiry, JOBRIGHT_COOKIES, auth>>

Sockets == 1..MaxSockets

\* No get_cookie_header call has been made: _auth_lock is free
NoAuthTasks == [locked |-> FALSE, logins |-> {}, last |-> <<>>]

\* Another disturbance fits the behaviour
Room == faults + outages + adminOps < MaxEvents
EmptyMap == [k \in {} |-> None]
NoStats == CycleStats(<<>>)

UnsetConfig == [k \in CONFIG_KEYS |-> None]

\* lifespan(): ping, seed_config_if_missing, then the loop task is created.
\* Redis is either reachable at startup (the config is seeded) or not.
Init ==
    /\ now = 0
    /\ cycle = 0
    /\ pc = "start"
    /\ target_keywords = <<>>
    /\ calls = <<>>
    /\ results = EmptyMap
    /\ lists = EmptyLists
    /\ cur = None
    /\ stats = NoStats
    /\ redisUp \in BOOLEAN
    /\ outages = IF redisUp THEN 0 ELSE 1
    /\ seen = EmptyMap
    /\ DEFAULT_BLOCKED_COMPANIES = INITIAL_BLOCKED_COMPANIES
    /\ config = SeedConfigIfMissing(redisUp, UnsetConfig, INITIAL_BLOCKED_COMPANIES)
    /\ adminOps = 0
    /\ active_connections = <<>>
    /\ socket = [w \in Sockets |-> "new"]
    /\ cached_cookies = ""
    /\ cookie_expiry = None
    /\ JOBRIGHT_COOKIES = ""
    /\ auth = <<>>
    /\ proxyMalformed \in BOOLEAN
    /\ handlers = <<>>
    /\ sending = None
    /\ authTasks = NoAuthTasks
    /\ batch = 0
    /\ faults = 0
    /\ windowEnd = EmptyMap
    /\ trace = <<>>
    /\ delivered = <<>>
    /\ event = None
    /\ blocking = None
    /\ configuredIn = 0
    /\ telegram = ""
    /\ reply = None
    /\ fetching = {}
    /\ request = None

\* The config getters as the running process sees them now
get_target_keywords ==
    GetConfigList(redisUp, config, "target_keywords", DEFAULT_TARGET_KEYWORDS)
get_blocked_companies ==
    GetConfigList(redisUp, config, "blocked_companies", DEFAULT_BLOCKED_COMPANIES)
get_title_filter_keywords ==
    GetConfigList(redisUp, config, "title_filter_keywords", DEFAULT_TITLE_FILTER_KEYWORDS)
get_target_locations ==
    GetConfigList(redisUp, config, "target_locations", DEFAULT_TARGET_LOCATIONS)

\* ------------------------------------------------------------------------
\* The scraper loop (main.py, run_scraper_loop)
\* ------------------------------------------------------------------------
\* Request scripts the network can play against one fetch
NetScripts ==
    { <<"200", "200", "200">>,
      <<"500", "500", "500">>,
      <<"401", "200", "200">>,
      <<"403", "200", "200">>,
      <<"transient", "200", "200">>,
      <<"transient", "transient", "transient">>,
      <<"error", "200", "200">> }

CleanScript == <<"200", "200", "200">>

\* Response bodies a fetch can receive when room more raw items fit the cycle
Bodies(source, room) ==
    {[parsable |-> FALSE, items |-> <<>>], [parsable |-> TRUE, items |-> <<>>]}
    \cup (IF room >= 1
          THEN {[parsable |-> TRUE, items |-> <<a>>] : a \in Feed(source)}
          ELSE {})
    \cup (IF room >= 2
          THEN {[parsable |-> TRUE, items |-> <<a, b>>] :
                    a \in Feed(source), b \in Feed(source)}
          ELSE {})

IsFault(script, body) == script # CleanScript \/ ~body.parsable

\* Adapters that build their httpx client with settings.PROXY_URL outside
\* their try block
ProxySources == {"LinkedIn", "MathWorks"}

\* Adapters that read the two filter lists from Redis; the rest use settings
RedisConfigSources == {"Fidelity", "StateStreet"}

TitlesFor(source) ==
    IF source \in RedisConfigSources THEN get_title_filter_keywords
    ELSE SETTINGS_TITLE_FILTER_KEYWORDS

BlockedFor(source) ==
    IF source \in RedisConfigSources THEN get_blocked_companies
    ELSE SETTINGS_BLOCKED_COMPANIES

\* Top of the while body: read the keywords and hand one coroutine per
\* keyword (LinkedIn) plus the five keyword-independent ones to gather.
StartCycle ==
    /\ pc = "start"
    /\ cycle < MaxCycles
    /\ cycle' = cycle + 1
    /\ target_keywords' = get_target_keywords
    /\ calls' = [i \in 1..Len(target_keywords') |-> "LinkedIn"]
                \o <<"Jobright", "JobrightMiniSites", "Fidelity", "StateStreet", "MathWorks">>
    /\ results' = EmptyMap
    /\ lists' = EmptyLists
    /\ batch' = 0
    /\ pc' = "gather"
    /\ UNCHANGED <<now, cur, stats, faults, trace, redisVars, DEFAULT_BLOCKED_COMPANIES, adminOps, blocking,
                   wsVars, authVars, proxyMalformed, handlers, sending, authTasks, reply, fetching, request, windowEnd, configuredIn, telegram>>

Store(i, r) == [k \in DOMAIN results \cup {i} |-> IF k = i THEN r ELSE results[k]]

\* The fetch that returns next. gather stores the results by position, so the
\* order in which the fetches finish is not visible to the loop: the model
\* lets them finish in call order.
NextCall == Cardinality(DOMAIN results) + 1

\* One fetch of gather returns its dict (every adapter but Jobright).
AdapterReturn(i) ==
    /\ pc = "gather"
    /\ i \in DOMAIN calls
    /\ i = NextCall
    /\ calls[i] # "Jobright"
    /\ ~(proxyMalformed /\ calls[i] \in ProxySources)
    /\ \E script \in NetScripts, body \in Bodies(calls[i], MaxBatch - batch) :
          /\ IsFault(script, body) => Room
          /\ faults' = IF IsFault(script, body) THEN faults + 1 ELSE faults
          /\ batch' = batch + Len(body.items)
          /\ results' = Store(i, FetchResult(calls[i], script, body,
                                 TitlesFor(calls[i]), BlockedFor(calls[i]), now))
    /\ UNCHANGED <<now, cycle, pc, target_keywords, calls, lists, cur, stats, trace,
                   redisVars, DEFAULT_BLOCKED_COMPANIES, adminOps, blocking, wsVars, authVars,
                   proxyMalformed, handlers, sending, authTasks, reply, fetching, request, windowEnd, configuredIn, telegram>>

\* fetch_jobright_jobs: get_cookie_header (the cookies of the settings when
\* set, else the cached cookie or a login), the request loop,
\* invalidate_cookies on 401/403.
JobrightReturn(i) ==
    /\ pc = "gather"
    /\ i \in DOMAIN calls
    /\ i = NextCall
    /\ calls[i] = "Jobright"
    /\ LET manual == JOBRIGHT_COOKIES # ""
           hit == cached_cookies # "" /\ cookie_expiry # None /\ now < Get(cookie_expiry)
       IN \E login \in {"", "cookie"}, script \in NetScripts,
             body \in Bodies("Jobright", MaxBatch - batch) :
            LET cookie == IF manual THEN JOBRIGHT_COOKIES
                          ELSE IF hit THEN cached_cookies ELSE login
                how == IF manual THEN "manual" ELSE IF hit THEN "cached" ELSE "login"
                used == cookie # ""
                fault == (IF used THEN IsFault(script, body) ELSE TRUE)
                o == RequestLoop("auth", script, 1, 0, "")
            IN /\ (manual \/ hit) => login = "cookie"
               /\ ~used => script = CleanScript /\ body.items = <<>> /\ body.parsable
               /\ fault => Room
               /\ faults' = IF fault THEN faults + 1 ELSE faults
               /\ batch' = batch + Len(body.items)
               /\ results' = Store(i, IF used
                                      THEN FetchResult("Jobright", script, body,
                                               SETTINGS_TITLE_FILTER_KEYWORDS,
                                               SETTINGS_BLOCKED_COMPANIES, now)
                                      ELSE FailedResult(0))
               /\ cached_cookies' =
                     IF used /\ o.kind = "auth" THEN ""
                     ELSE IF manual THEN cached_cookies ELSE cookie
               /\ cookie_expiry' =
                     IF used /\ o.kind = "auth" THEN None
                     ELSE IF manual \/ hit THEN cookie_expiry
                     ELSE Some(now + COOKIE_VALIDITY_HOURS * 3600)
               /\ auth' = <<how, IF used THEN o.kind ELSE "none">>
    /\ UNCHANGED <<now, cycle, pc, target_keywords, calls, lists, cur, stats, trace,
                   redisVars, DEFAULT_BLOCKED_COMPANIES, adminOps, blocking, wsVars, JOBRIGHT_COOKIES,
                   proxyMalformed, handlers, sending, authTasks, reply, fetching, request, windowEnd, configuredIn, telegram>>

\* A fetch whose httpx.AsyncClient(proxy=...) is built outside the adapter's
\* try block raises on a proxy URL httpx rejects; gather re-raises it in the
\* loop body and the results of this cycle are dropped.
AdapterRaise(i) ==
    /\ pc = "gather"
    /\ i \in DOMAIN calls
    /\ i = NextCall
    /\ proxyMalformed /\ calls[i] \in ProxySources
    /\ pc' = "raised"
    /\ UNCHANGED <<now, cycle, target_keywords, calls, results, lists, cur, stats, batch,
                   faults, trace, redisVars, DEFAULT_BLOCKED_COMPANIES, adminOps, blocking, wsVars,
                   authVars, proxyMalformed, handlers, sending, authTasks, reply, fetching, request, windowEnd, configuredIn, telegram>>

\* gather has every result: statistics, then the collection loop.
Aggregate ==
    /\ pc = "gather"
    /\ DOMAIN results = DOMAIN calls
    /\ LET rs == [i \in DOMAIN calls |-> results[i]]
       IN /\ stats' = CycleStats(rs)
          /\ lists' = Collect(rs, EmptyLists)
    /\ pc' = "process"
    /\ UNCHANGED <<now, cycle, target_keywords, calls, results, cur, batch, faults, trace,
                   redisVars, DEFAULT_BLOCKED_COMPANIES, adminOps, blocking, wsVars, authVars,
                   proxyMalformed, handlers, sending, authTasks, reply, fetching, request, windowEnd, configuredIn, telegram>>

\* The list the five "for job in ..." loops are in: the first one with
\* postings left (0: all five are done)
CurrentList ==
    IF \E k \in 1..5 : lists[k] # <<>>
    THEN CHOOSE k \in 1..5 : lists[k] # <<>> /\ \A m \in 1..(k - 1) : lists[m] = <<>>
    ELSE 0

NextJob == Head(lists[CurrentList])
Popped == [lists EXCEPT ![CurrentList] = Tail(@)]

\* Sensitivity variant of NeedsFilter: the four recent pools are filtered like
\* all_jobs
NeedsFilter_everywhere(k, job) == job.source # "Jobright"

\* Postings of all_jobs that go through the recency and keyword steps
NeedsFilter(k, job) == k = 1 /\ job.source # "Jobright"

\* all_jobs loop, steps 1 and 2: is_recent, then matches_target_keywords,
\* which reads the keyword list from Redis at that moment.
FilterJob ==
    /\ pc = "process"
    /\ CurrentList # 0
    /\ NeedsFilter(CurrentList, NextJob)
    /\ lists' = Popped
    /\ IF is_recent(NextJob.posted_at, now)
          /\ matches_target_keywords(NextJob, get_target_keywords)
       THEN /\ cur' = Some([job |-> NextJob, list |-> CurrentList])
            /\ pc' = "seen"
       ELSE /\ cur' = cur
            /\ pc' = pc
    /\ UNCHANGED <<now, cycle, target_keywords, calls, results, stats, batch, faults,
                   trace, redisVars, DEFAULT_BLOCKED_COMPANIES, adminOps, blocking, wsVars, authVars,
                   proxyMalformed, handlers, sending, authTasks, reply, fetching, request, windowEnd, configuredIn, telegram>>

\* An alert of this identity wrote a record whose TTL has not run out
WindowOpen(key) ==
    key \in DOMAIN windowEnd
    /\ (windowEnd[key] = NoExpiry \/ now < Get(windowEnd[key]))

\* An alert of this identity wrote a record whose TTL has run out
WindowOver(key) ==
    key \in DOMAIN windowEnd /\ windowEnd[key] # NoExpiry /\ now >= Get(windowEnd[key])

\* Why a dedup check that lets the posting through did so
CheckOutcome(key) ==
    IF ~redisUp THEN "failopen"
    ELSE IF WindowOver(key) THEN "expired"
    ELSE "miss"

\* "if await is_already_seen(job_key): continue" of each of the five loops
CheckSeen ==
    /\ \/ /\ pc = "seen"
          /\ UNCHANGED lists
       \/ /\ pc = "process"
          /\ CurrentList # 0
          /\ ~NeedsFilter(CurrentList, NextJob)
          /\ lists' = Popped
    /\ LET c == IF pc = "seen" THEN Get(cur) ELSE [job |-> NextJob, list |-> CurrentList]
       IN IF is_already_seen(redisUp, seen, JobKey(c.job), now)
          THEN /\ cur' = None
               /\ pc' = "process"
               /\ trace' = <<"hit">>
          ELSE /\ cur' = Some(c)
               /\ pc' = "mark"
               /\ trace' = <<CheckOutcome(JobKey(c.job))>>
    /\ UNCHANGED <<now, cycle, target_keywords, calls, results, stats, batch, faults,
                   redisVars, DEFAULT_BLOCKED_COMPANIES, adminOps, blocking, wsVars, authVars,
                   proxyMalformed, handlers, sending, authTasks, reply, fetching, request, windowEnd, configuredIn, telegram>>

\* Connections whose send_json raises
Failing == {w \in DOMAIN socket : socket[w] = "broken"}

\* The messages handed to manager.broadcast, by their type and the identities
\* they carry
NewJobEvent(job) ==
    [type |-> "NEW_JOB", company |-> job.company, external_ids |-> {job.external_id}]
CompanyBlockedEvent(company, deleted_job_ids) ==
    [type |-> "COMPANY_BLOCKED", company |-> company, external_ids |-> deleted_job_ids]
JobDismissedEvent(external_id) ==
    [type |-> "JOB_DISMISSED", company |-> "", external_ids |-> {external_id}]

\* The dedup write of the loop the posting is in
WriteSeen(c) ==
    IF c.list = 5
    THEN mark_as_seen_permanent(redisUp, seen, JobKey(c.job), c.job)
    ELSE mark_as_seen(redisUp, seen, JobKey(c.job), c.job, TtlOfList(c.list), now)

\* Sensitivity variant of MarkSeen: a failing Redis write is not caught and
\* reaches the except clause of the loop
MarkSeen_raising ==
    /\ pc = "mark"
    /\ seen' = WriteSeen(Get(cur))
    /\ windowEnd' =
          LET key == JobKey(Get(cur).job)
          IN IF redisUp /\ key \in DOMAIN seen'
             THEN [k \in DOMAIN windowEnd \cup {key} |->
                      IF k = key THEN seen'[key].expiry ELSE windowEnd[k]]
             ELSE windowEnd
    /\ trace' = Append(trace, "write")
    /\ pc' = IF redisUp THEN "broadcast" ELSE "raised"
    /\ UNCHANGED <<now, cycle, target_keywords, calls, results, lists, cur, stats, batch,
                   faults, redisUp, outages, config, DEFAULT_BLOCKED_COMPANIES, adminOps, blocking,
                   wsVars, authVars, proxyMalformed, handlers, sending, authTasks, reply, fetching, request, configuredIn,
                   telegram>>

\* Sensitivity variant of MarkSeen: the broadcast goes out without the write
MarkSeen_unwritten ==
    /\ pc = "mark"
    /\ active_connections' = Broadcast(active_connections, Failing).conns
    /\ delivered' = Broadcast(active_connections, Failing).sent
    /\ trace' = Append(trace, "broadcast")
    /\ event' = Some(NewJobEvent(Get(cur).job))
    /\ pc' = "telegram"
    /\ UNCHANGED <<now, cycle, target_keywords, calls, results, lists, cur, stats, batch,
                   faults, redisVars, DEFAULT_BLOCKED_COMPANIES, adminOps, blocking, socket, authVars,
                   proxyMalformed, handlers, sending, authTasks, reply, fetching, request, windowEnd, configuredIn, telegram>>

\* job_dict = job.model_dump(); await mark_as_seen(...); new_finds += 1
MarkSeen ==
    /\ pc = "mark"
    /\ seen' = WriteSeen(Get(cur))
    /\ windowEnd' =
          LET key == JobKey(Get(cur).job)
          IN IF redisUp /\ key \in DOMAIN seen'
             THEN [k \in DOMAIN windowEnd \cup {key} |->
                      IF k = key THEN seen'[key].expiry ELSE windowEnd[k]]
             ELSE windowEnd
    /\ trace' = Append(trace, "write")
    /\ pc' = "broadcast"
    /\ UNCHANGED <<now, cycle, target_keywords, calls, results, lists, cur, stats, batch,
                   faults, redisUp, outages, config, DEFAULT_BLOCKED_COMPANIES, adminOps, blocking,
                   wsVars, authVars, proxyMalformed, handlers, sending, authTasks, reply, fetching, request, configuredIn, telegram>>

\* await manager.broadcast({"type": "NEW_JOB", "data": job_dict})
BroadcastNewJob ==
    /\ pc = "broadcast"
    /\ active_connections' = Broadcast(active_connections, Failing).conns
    /\ delivered' = Broadcast(active_connections, Failing).sent
    /\ trace' = Append(trace, "broadcast")
    /\ event' = Some(NewJobEvent(Get(cur).job))
    /\ pc' = "telegram"
    /\ UNCHANGED <<now, cycle, target_keywords, calls, results, lists, cur, stats, batch,
                   faults, redisVars, DEFAULT_BLOCKED_COMPANIES, adminOps, blocking, socket, authVars,
                   proxyMalformed, handlers, sending, authTasks, reply, fetching, request, windowEnd, configuredIn, telegram>>

\* How the POST of send_telegram_alert can end: status 200, another status,
\* or an exception of the client (connection error, timeout)
TelegramOutcomes == {"200", "500", "error"}

\* Sensitivity variant of SendTelegram: a failed POST raises into the loop
SendTelegram_raising ==
    /\ pc = "telegram"
    /\ \E o \in TelegramOutcomes :
          /\ o # "200" => Room
          /\ faults' = IF o # "200" THEN faults + 1 ELSE faults
          /\ telegram' = o
          /\ pc' = IF o # "200" THEN "raised" ELSE "process"
    /\ trace' = Append(trace, "telegram")
    /\ cur' = None
    /\ UNCHANGED <<now, cycle, target_keywords, calls, results, lists, stats, batch,
                   redisVars, DEFAULT_BLOCKED_COMPANIES, adminOps, blocking, wsVars, authVars,
                   proxyMalformed, handlers, sending, authTasks, reply, fetching, request, windowEnd, configuredIn>>

\* await send_telegram_alert(job), with the credentials set: the POST ends
\* with 200, with another status or with an exception; each is only logged.
SendTelegram ==
    /\ pc = "telegram"
    /\ \E o \in TelegramOutcomes :
          /\ o # "200" => Room
          /\ faults' = IF o # "200" THEN faults + 1 ELSE faults
          /\ telegram' = o
    /\ trace' = Append(trace, "telegram")
    /\ cur' = None
    /\ pc' = "process"
    /\ UNCHANGED <<now, cycle, target_keywords, calls, results, lists, stats, batch,
                   redisVars, DEFAULT_BLOCKED_COMPANIES, adminOps, blocking, wsVars, authVars,
                   proxyMalformed, handlers, sending, authTasks, reply, fetching, request, windowEnd, configuredIn>>

\* The five loops are done: the try block ends. The locals of the iteration
\* are not read again before the next one assigns them.
EndCycle ==
    /\ pc = "process"
    /\ CurrentList = 0
    /\ pc' = "sleep"
    /\ trace' = <<>>
    /\ target_keywords' = <<>>
    /\ calls' = <<>>
    /\ results' = EmptyMap
    /\ stats' = NoStats
    /\ UNCHANGED <<now, cycle, lists, cur, batch,
                   faults, redisVars, DEFAULT_BLOCKED_COMPANIES, adminOps, blocking, wsVars, authVars,
                   proxyMalformed, handlers, sending, authTasks, reply, fetching, request, windowEnd, configuredIn, telegram>>

\* Sensitivity variant of CatchError: the exception ends the task
CatchError_exit ==
    /\ pc = "raised"
    /\ pc' = "exit"
    /\ UNCHANGED <<now, cycle, target_keywords, calls, results, lists, cur, stats, batch,
                   faults, trace, redisVars, DEFAULT_BLOCKED_COMPANIES, adminOps, blocking, wsVars,
                   authVars, proxyMalformed, handlers, sending, authTasks, reply, fetching, request, windowEnd, configuredIn, telegram>>

\* except Exception as e: logger.error(...)
CatchError ==
    /\ pc = "raised"
    /\ pc' = "sleep"
    /\ target_keywords' = <<>>
    /\ calls' = <<>>
    /\ results' = EmptyMap
    /\ UNCHANGED <<now, cycle, lists, cur, stats, batch,
                   faults, trace, redisVars, DEFAULT_BLOCKED_COMPANIES, adminOps, blocking, wsVars,
                   authVars, proxyMalformed, handlers, sending, authTasks, reply, fetching, request, windowEnd, configuredIn, telegram>>

\* Time that can pass until asyncio.sleep(240) returns: the 240 seconds, or
\* longer (the sleep is a lower bound; the longer values let the TTLs run out)
Durations == {SLEEP_SECONDS, SEEN_JOB_TTL_SECONDS, FIDELITY_TTL_SECONDS}

\* await asyncio.sleep(240); meanwhile Redis expires the keys whose TTL ended
Sleep ==
    /\ pc = "sleep"
    /\ cycle < MaxCycles
    /\ \E d \in Durations :
          /\ now' = now + d
          /\ seen' = Expire(seen, now')
    /\ pc' = "start"
    /\ UNCHANGED <<cycle, target_keywords, calls, results, lists, cur, stats, batch, faults,
                   trace, windowEnd, redisUp, outages, config, DEFAULT_BLOCKED_COMPANIES, adminOps, blocking,
                   wsVars, authVars, proxyMalformed, handlers, sending, authTasks, reply, fetching, request, configuredIn, telegram>>

\* ------------------------------------------------------------------------
\* Environment: Redis availability, WebSocket clients
\* ------------------------------------------------------------------------
RedisDown ==
    /\ redisUp
    /\ Room
    /\ redisUp' = FALSE
    /\ outages' = outages + 1
    /\ UNCHANGED <<now, cycle, loopVars, seen, config, DEFAULT_BLOCKED_COMPANIES, adminOps, blocking,
                   wsVars, authVars, proxyMalformed, handlers, sending, authTasks, reply, fetching, request, windowEnd, configuredIn, telegram>>

RedisRecover ==
    /\ ~redisUp
    /\ redisUp' = TRUE
    /\ UNCHANGED <<now, cycle, loopVars, outages, seen, config, DEFAULT_BLOCKED_COMPANIES,
                   adminOps, blocking, wsVars, authVars, proxyMalformed, handlers, sending, authTasks, reply, fetching, request, windowEnd, configuredIn, telegram>>

\* websocket_endpoint: manager.connect(websocket)
Connect(w) ==
    /\ socket[w] = "new"
    /\ socket' = [socket EXCEPT ![w] = "open"]
    /\ active_connections' = Append(active_connections, w)
    /\ UNCHANGED <<now, cycle, loopVars, redisVars, DEFAULT_BLOCKED_COMPANIES, adminOps, blocking,
                   delivered, event, authVars, proxyMalformed, handlers, sending, authTasks, reply, fetching, request, windowEnd, configuredIn, telegram>>

\* The peer goes away: sends to the socket raise from now on
SocketBreak(w) ==
    /\ socket[w] = "open"
    /\ socket' = [socket EXCEPT ![w] = "broken"]
    /\ UNCHANGED <<now, cycle, loopVars, redisVars, DEFAULT_BLOCKED_COMPANIES, adminOps, blocking,
                   active_connections, delivered, event, authVars, proxyMalformed, handlers, sending, authTasks, reply, fetching, request, windowEnd, configuredIn, telegram>>

\* websocket_endpoint: receive_text raises, manager.disconnect(websocket)
Disconnect(w) ==
    /\ socket[w] \in {"open", "broken"}
    /\ socket' = [socket EXCEPT ![w] = "closed"]
    /\ active_connections' = Disconnected(active_connections, w)
    /\ UNCHANGED <<now, cycle, loopVars, redisVars, DEFAULT_BLOCKED_COMPANIES, adminOps, blocking,
                   delivered, event, authVars, proxyMalformed, handlers, sending, authTasks, reply, fetching, request, windowEnd, configuredIn, telegram>>

\* ------------------------------------------------------------------------
\* Administrative endpoints (main.py)
\* ------------------------------------------------------------------------
\* Request bodies the model sends to the PUT /config/* endpoints
ConfigChoices(key) ==
    CASE key = "target_keywords" -> {<<>>}
      [] key = "target_locations" -> {<<>>}
      [] key = "blocked_companies" -> {<<S_ACME>>}
      [] key = "title_filter_keywords" -> {<<S_backend>>}

\* Companies the model sends to POST /jobs/block
BlockChoices == {S_Acme}

\* update_target_keywords and the three endpoints like it
PutConfig(key, value) ==
    /\ Room
    /\ adminOps' = adminOps + 1
    /\ blocking' = blocking
    /\ configuredIn' = cycle
    /\ config' = SetConfigList(redisUp, config, key, value).cfg
    /\ UNCHANGED <<now, cycle, loopVars, redisUp, outages, seen, DEFAULT_BLOCKED_COMPANIES,
                   wsVars, authVars, proxyMalformed, handlers, sending, authTasks, reply, fetching, request, windowEnd, telegram>>

\* list membership "x not in list"
InList(list, x) == \E i \in DOMAIN list : list[i] = x

\* Keys of the records whose snapshot has exactly this company
KeysOfCompany(cache, company) == {k \in DOMAIN cache : cache[k].value.company = company}

\* deleted_job_ids: the external_id of each deleted record's snapshot
ExternalIds(cache, keys) == {cache[k].value.external_id : k \in keys}

\* Sensitivity variant of DismissJob: every record of the dismissed posting's
\* company goes with it
DismissJob_company(key) ==
    /\ Room
    /\ adminOps' = adminOps + 1
    /\ blocking' = blocking
    /\ configuredIn' = cycle
    /\ IF redisUp /\ key \in DOMAIN seen
       THEN /\ seen' = Delete(seen, KeysOfCompany(seen, seen[key].value.company))
            /\ active_connections' = Broadcast(active_connections, Failing).conns
            /\ delivered' = Broadcast(active_connections, Failing).sent
            /\ event' = Some(JobDismissedEvent(key[2]))
       ELSE UNCHANGED <<seen, active_connections, delivered, event>>
    /\ UNCHANGED <<now, cycle, loopVars, redisUp, outages, config, DEFAULT_BLOCKED_COMPANIES,
                   socket, authVars, proxyMalformed, handlers, sending, authTasks, reply, fetching, request, windowEnd, telegram>>

\* Sensitivity variant of BlockCompany: list and records as in the code, no
\* message to the subscribers
BlockCompany_silent(company) ==
    /\ Room
    /\ adminOps' = adminOps + 1
    /\ blocking' = blocking
    /\ configuredIn' = cycle
    /\ LET stored == redisUp /\ config["blocked_companies"] # None
           blocked_companies == get_blocked_companies
           appended == IF InList(blocked_companies, company) THEN blocked_companies
                       ELSE Append(blocked_companies, company)
       IN /\ DEFAULT_BLOCKED_COMPANIES' =
                IF stored THEN DEFAULT_BLOCKED_COMPANIES ELSE appended
          /\ config' = IF InList(blocked_companies, company) THEN config
                       ELSE SetConfigList(redisUp, config, "blocked_companies", appended).cfg
    /\ seen' = IF redisUp THEN Delete(seen, KeysOfCompany(seen, company)) ELSE seen
    /\ UNCHANGED <<now, cycle, loopVars, redisUp, outages, wsVars, authVars, proxyMalformed, handlers, sending, authTasks, reply, fetching, request,
                   windowEnd, telegram>>

\* block_company_and_remove_jobs: step 1 appends to the list get_blocked_companies
\* returned (the default list object when Redis has no stored list or the read
\* failed) and stores it; step 2 scans and deletes; step 3 broadcasts. A Redis
\* failure in step 2 ends the request with HTTP 500 after step 1.
BlockCompany(company) ==
    /\ Room
    /\ adminOps' = adminOps + 1
    /\ blocking' = blocking
    /\ configuredIn' = cycle
    /\ LET stored == redisUp /\ config["blocked_companies"] # None
           blocked_companies == get_blocked_companies
           appended == IF InList(blocked_companies, company) THEN blocked_companies
                       ELSE Append(blocked_companies, company)
       IN /\ DEFAULT_BLOCKED_COMPANIES' =
                IF stored THEN DEFAULT_BLOCKED_COMPANIES ELSE appended
          /\ config' = IF InList(blocked_companies, company) THEN config
                       ELSE SetConfigList(redisUp, config, "blocked_companies", appended).cfg
    /\ IF redisUp
       THEN /\ seen' = Delete(seen, KeysOfCompany(seen, company))
            /\ active_connections' = Broadcast(active_connections, Failing).conns
            /\ delivered' = Broadcast(active_connections, Failing).sent
            /\ event' = Some(CompanyBlockedEvent(company,
                                 ExternalIds(seen, KeysOfCompany(seen, company))))
       ELSE UNCHANGED <<seen, active_connections, delivered, event>>
    /\ UNCHANGED <<now, cycle, loopVars, redisUp, outages, socket, authVars, proxyMalformed, handlers, sending, authTasks, reply, fetching, request,
                   windowEnd, telegram>>

\* The same request at the grain of the event loop: the handler gives up
\* control at each await, so the scraper task can run between step 1 (the
\* list), step 2 (scan and delete) and step 3 (the broadcast, after which the
\* handler returns success).
BlockListed(company) ==
    /\ blocking = None
    /\ Room
    /\ adminOps' = adminOps + 1
    /\ configuredIn' = cycle
    /\ LET stored == redisUp /\ config["blocked_companies"] # None
           blocked_companies == get_blocked_companies
           appended == IF InList(blocked_companies, company) THEN blocked_companies
                       ELSE Append(blocked_companies, company)
       IN /\ DEFAULT_BLOCKED_COMPANIES' =
                IF stored THEN DEFAULT_BLOCKED_COMPANIES ELSE appended
          /\ config' = IF InList(blocked_companies, company) THEN config
                       ELSE SetConfigList(redisUp, config, "blocked_companies", appended).cfg
    /\ blocking' = Some([company |-> company, stage |-> "listed", deleted_job_ids |-> {}])
    /\ UNCHANGED <<now, cycle, loopVars, redisUp, outages, seen, wsVars, authVars,
                   proxyMalformed, handlers, sending, authTasks, reply, fetching, request, windowEnd, telegram>>

BlockScanned ==
    /\ blocking # None
    /\ Get(blocking).stage = "listed"
    /\ LET company == Get(blocking).company
           keys == KeysOfCompany(seen, company)
       IN IF redisUp
          THEN /\ seen' = Delete(seen, keys)
               /\ blocking' = Some([company |-> company, stage |-> "scanned",
                                    deleted_job_ids |-> ExternalIds(seen, keys)])
          ELSE /\ seen' = seen
               /\ blocking' = Some([company |-> company, stage |-> "failed",
                                    deleted_job_ids |-> {}])
    /\ UNCHANGED <<now, cycle, loopVars, redisUp, outages, config, DEFAULT_BLOCKED_COMPANIES,
                   adminOps, wsVars, authVars, proxyMalformed, handlers, sending, authTasks, reply, fetching, request, windowEnd, configuredIn,
                   telegram>>

BlockBroadcast ==
    /\ blocking # None
    /\ Get(blocking).stage = "scanned"
    /\ active_connections' = Broadcast(active_connections, Failing).conns
    /\ delivered' = Broadcast(active_connections, Failing).sent
    /\ event' = Some(CompanyBlockedEvent(Get(blocking).company, Get(blocking).deleted_job_ids))
    /\ blocking' = Some([Get(blocking) EXCEPT !.stage = "done"])
    /\ UNCHANGED <<now, cycle, loopVars, redisVars, DEFAULT_BLOCKED_COMPANIES, adminOps,
                   socket, authVars, proxyMalformed, handlers, sending, authTasks, reply, fetching, request, windowEnd, configuredIn, telegram>>

\* Identities the model sends to POST /jobs/dismiss: those it has records of
\* and one it never has
DismissChoices == DOMAIN seen \cup {<<"LinkedIn", "L9">>}

\* dismiss_job: DEL of the one key; JOB_DISMISSED is broadcast when a key was
\* deleted; a Redis failure ends the request with HTTP 500.
DismissJob(key) ==
    /\ Room
    /\ adminOps' = adminOps + 1
    /\ blocking' = blocking
    /\ configuredIn' = cycle
    /\ IF redisUp /\ key \in DOMAIN seen
       THEN /\ seen' = Delete(seen, {key})
            /\ active_connections' = Broadcast(active_connections, Failing).conns
            /\ delivered' = Broadcast(active_connections, Failing).sent
            /\ event' = Some(JobDismissedEvent(key[2]))
       ELSE UNCHANGED <<seen, active_connections, delivered, event>>
    /\ UNCHANGED <<now, cycle, loopVars, redisUp, outages, config, DEFAULT_BLOCKED_COMPANIES,
                   socket, authVars, proxyMalformed, handlers, sending, authTasks, reply, fetching, request, windowEnd, telegram>>

\* ------------------------------------------------------------------------
\* Specification
\* ------------------------------------------------------------------------
Next ==
    \/ StartCycle
    \/ \E i \in 1..8 : AdapterReturn(i)
    \/ \E i \in 1..8 : JobrightReturn(i)
    \/ \E i \in 1..8 : AdapterRaise(i)
    \/ Aggregate
    \/ FilterJob
    \/ CheckSeen
    \/ MarkSeen
    \/ BroadcastNewJob
    \/ SendTelegram
    \/ EndCycle
    \/ CatchError
    \/ Sleep
    \/ RedisDown
    \/ RedisRecover
    \/ \E w \in DOMAIN socket : Connect(w)
    \/ \E w \in DOMAIN socket : SocketBreak(w)
    \/ \E w \in DOMAIN socket : Disconnect(w)
    \/ \E key \in CONFIG_KEYS : \E value \in ConfigChoices(key) : PutConfig(key, value)
    \/ \E company \in BlockChoices : BlockCompany(company)
    \/ \E key \in DismissChoices : DismissJob(key)

Spec == Init /\ [][Next]_vars

\* The steps of the scraper task. The event loop keeps scheduling the task,
\* and each of its awaits (HTTP requests with timeouts, Redis calls, sends,
\* the sleep) ends: a step that stays enabled is eventually taken.
LoopStep ==
    \/ StartCycle
    \/ \E i \in 1..8 : AdapterReturn(i)
    \/ \E i \in 1..8 : JobrightReturn(i)
    \/ \E i \in 1..8 : AdapterRaise(i)
    \/ Aggregate
    \/ FilterJob
    \/ CheckSeen
    \/ MarkSeen
    \/ BroadcastNewJob
    \/ SendTelegram
    \/ EndCycle
    \/ CatchError
    \/ Sleep

\* The scraper task on its own: the adapters' faults, the proxy setting and
\* the Redis outages are what a cycle body can fail on; no administrative
\* request is served and no WebSocket client connects.
NextLive ==
    \/ LoopStep
    \/ RedisDown
    \/ RedisRecover

SpecLive == Init /\ [][NextLive]_vars /\ WF_vars(LoopStep)

\* ------------------------------------------------------------------------
\* ConnectionManager.broadcast over every list of subscribers
\* ------------------------------------------------------------------------
\* Lists of distinct connections
ConnectionLists ==
    {q \in UNION {[1..n -> 1..MaxSubscribers] : n \in 0..MaxSubscribers} :
        \A i, j \in DOMAIN q : i # j => q[i] # q[j]}

\* The posting whose NEW_JOB frame is broadcast
FirstJob ==
    JobCreate("LinkedIn", RawItem("L1", S_Backend, S_Acme, Some(120), ""), S_Acme, Some(0 - 120))

\* The loop is about to broadcast a posting it has just recorded; any list of
\* connected sockets, each of them open or broken.
InitBroadcast ==
    /\ now = 0
    /\ cycle = 1
    /\ pc = "broadcast"
    /\ target_keywords = DEFAULT_TARGET_KEYWORDS
    /\ calls = <<>>
    /\ results = EmptyMap
    /\ lists = EmptyLists
    /\ cur = Some([job |-> FirstJob, list |-> 1])
    /\ stats = NoStats
    /\ redisUp = TRUE
    /\ outages = 0
    /\ seen = mark_as_seen(TRUE, EmptyMap, JobKey(FirstJob), FirstJob, None, 0)
    /\ DEFAULT_BLOCKED_COMPANIES = INITIAL_BLOCKED_COMPANIES
    /\ config = SeedConfigIfMissing(TRUE, UnsetConfig, INITIAL_BLOCKED_COMPANIES)
    /\ adminOps = 0
    /\ active_connections \in ConnectionLists
    /\ socket \in [1..MaxSubscribers -> {"new", "open", "broken"}]
    /\ \A w \in 1..MaxSubscribers :
          socket[w] = "new" <=> ~\E i \in DOMAIN active_connections : active_connections[i] = w
    /\ cached_cookies = ""
    /\ cookie_expiry = None
    /\ JOBRIGHT_COOKIES = ""
    /\ auth = <<>>
    /\ proxyMalformed = FALSE
    /\ handlers = <<>>
    /\ sending = None
    /\ authTasks = NoAuthTasks
    /\ batch = 1
    /\ faults = 0
    /\ windowEnd = [k \in {JobKey(FirstJob)} |-> Some(SEEN_JOB_TTL_SECONDS)]
    /\ trace = <<"miss", "write">>
    /\ delivered = <<>>
    /\ event = None
    /\ blocking = None
    /\ configuredIn = 0
    /\ telegram = ""
    /\ reply = None
    /\ fetching = {}
    /\ request = None

NextBroadcast == BroadcastNewJob

SpecBroadcast == InitBroadcast /\ [][NextBroadcast]_vars

\* ------------------------------------------------------------------------
\* The cycle statistics over every combination of adapter outcomes
\* ------------------------------------------------------------------------
\* Result dicts by their retries and failed fields
ResultShapes ==
    {[jobs |-> <<>>, retries |-> r, failed |-> f, recent_jobs |-> <<>>] :
        r \in 0..max_retries, f \in BOOLEAN}

\* gather has returned its list of results, of any length up to MaxCalls
InitStats ==
    /\ now = 0
    /\ cycle = 1
    /\ pc = "gather"
    /\ target_keywords = <<>>
    /\ \E n \in 0..MaxCalls :
          /\ calls = [i \in 1..n |-> "Fidelity"]
          /\ results \in [1..n -> ResultShapes]
    /\ lists = EmptyLists
    /\ cur = None
    /\ stats = NoStats
    /\ redisUp = TRUE
    /\ outages = 0
    /\ seen = EmptyMap
    /\ DEFAULT_BLOCKED_COMPANIES = INITIAL_BLOCKED_COMPANIES
    /\ config = SeedConfigIfMissing(TRUE, UnsetConfig, INITIAL_BLOCKED_COMPANIES)
    /\ adminOps = 0
    /\ active_connections = <<>>
    /\ socket = [w \in Sockets |-> "new"]
    /\ cached_cookies = ""
    /\ cookie_expiry = None
    /\ JOBRIGHT_COOKIES = ""
    /\ auth = <<>>
    /\ proxyMalformed = FALSE
    /\ handlers = <<>>
    /\ sending = None
    /\ authTasks = NoAuthTasks
    /\ batch = 0
    /\ faults = 0
    /\ windowEnd = EmptyMap
    /\ trace = <<>>
    /\ delivered = <<>>
    /\ event = None
    /\ blocking = None
    /\ configuredIn = 0
    /\ telegram = ""
    /\ reply = None
    /\ fetching = {}
    /\ request = None

NextStats == Aggregate

SpecStats == InitStats /\ [][NextStats]_vars

\* ------------------------------------------------------------------------
\* The processing loops over every pair of postings the adapters can return
\* ------------------------------------------------------------------------
\* Ages of an upstream item: not given, fresh, exactly the recency window,
\* one second more than the window
AgeChoices ==
    {None, Some(120), Some(JOB_RECENCY_MINUTES * 60), Some(JOB_RECENCY_MINUTES * 60 + 1)}

\* A UTC offset LinkedIn's datetime attribute can be written with (+01:00)
ZoneOffset == 3600

\* Wall-clock ages around the window for times written without an offset or
\* with ZoneOffset
ZonedAgeChoices ==
    {Some(JOB_RECENCY_MINUTES * 60), Some(JOB_RECENCY_MINUTES * 60 + 1),
     Some(JOB_RECENCY_MINUTES * 60 - ZoneOffset),
     Some(JOB_RECENCY_MINUTES * 60 - ZoneOffset + 1)}

\* One upstream item of a cycle: the site it comes from, title, age, location.
\* Starting from a fresh "Backend" posting in the United States, one of the
\* three is varied.
Picks ==
    [source : Sources, title : {S_Backend, S_backend, S_Analyst}, age : {Some(120)},
     zone : {Some(0)}, location : {S_UnitedStates}]
    \cup [source : Sources, title : {S_Backend}, age : AgeChoices,
          zone : {Some(0)}, location : {S_UnitedStates}]
    \cup [source : Sources, title : {S_Backend}, age : {Some(120)},
          zone : {Some(0)}, location : {S_Berlin}]
    \cup [source : {"LinkedIn"}, title : {S_Backend}, age : ZonedAgeChoices,
          zone : {None, Some(ZoneOffset)}, location : {S_UnitedStates}]

\* The item a site returns for a pick (its company is Acme unless the adapter
\* sets its own); the n-th pick of the cycle has external id Pn
PickItem(pick, n) ==
    RawItemZoned(IF n = 1 THEN "P1" ELSE "P2", pick.title, S_Acme, pick.age, pick.zone,
                 "Posted Today", pick.location)

\* The items of the body one site returns, in the order of the picks
RECURSIVE BodyOf(_, _, _)
BodyOf(source, picks, n) ==
    IF n > Len(picks) THEN <<>>
    ELSE (IF picks[n].source = source THEN <<PickItem(picks[n], n)>> ELSE <<>>)
         \o BodyOf(source, picks, n + 1)

FixedCalls ==
    <<"LinkedIn", "Jobright", "JobrightMiniSites", "Fidelity", "StateStreet", "MathWorks">>

\* gather has returned: every adapter answered 200 on its first attempt with a
\* body of up to MaxQueue items in all, filtered with the seeded lists.
InitProcess ==
    /\ now = 0
    /\ cycle = 1
    /\ pc = "gather"
    /\ target_keywords = DEFAULT_TARGET_KEYWORDS
    /\ calls = FixedCalls
    /\ \E n \in 0..MaxQueue : \E picks \in [1..n -> Picks] :
          results = [i \in DOMAIN FixedCalls |->
                        FetchResult(FixedCalls[i], CleanScript,
                                    [parsable |-> TRUE, items |-> BodyOf(FixedCalls[i], picks, 1)],
                                    DEFAULT_TITLE_FILTER_KEYWORDS, INITIAL_BLOCKED_COMPANIES, 0)]
    /\ lists = EmptyLists
    /\ cur = None
    /\ stats = NoStats
    /\ redisUp = TRUE
    /\ outages = 0
    /\ seen = EmptyMap
    /\ DEFAULT_BLOCKED_COMPANIES = INITIAL_BLOCKED_COMPANIES
    /\ config = SeedConfigIfMissing(TRUE, UnsetConfig, INITIAL_BLOCKED_COMPANIES)
    /\ adminOps = 0
    /\ active_connections = <<>>
    /\ socket = [w \in Sockets |-> "new"]
    /\ cached_cookies = "cookie"
    /\ cookie_expiry = Some(COOKIE_VALIDITY_HOURS * 3600)
    /\ JOBRIGHT_COOKIES = ""
    /\ auth = <<>>
    /\ proxyMalformed = FALSE
    /\ handlers = <<>>
    /\ sending = None
    /\ authTasks = NoAuthTasks
    /\ batch = 0
    /\ faults = 0
    /\ windowEnd = EmptyMap
    /\ trace = <<>>
    /\ delivered = <<>>
    /\ event = None
    /\ blocking = None
    /\ configuredIn = 0
    /\ telegram = ""
    /\ reply = None
    /\ fetching = {}
    /\ request = None

\* The rest of the cycle, with the Redis outages, the Telegram failures and
\* the config edits that can meet it
NextProcess ==
    \/ Aggregate
    \/ FilterJob
    \/ CheckSeen
    \/ MarkSeen
    \/ BroadcastNewJob
    \/ SendTelegram
    \/ EndCycle
    \/ RedisDown
    \/ RedisRecover
    \/ \E key \in CONFIG_KEYS : \E value \in ConfigChoices(key) : PutConfig(key, value)

SpecProcess == InitProcess /\ [][NextProcess]_vars

\* ------------------------------------------------------------------------
\* Properties
\* ------------------------------------------------------------------------
\* The posting whose dedup check runs in this step
Checked == IF pc = "seen" THEN Get(cur).job ELSE NextJob

\* This step is the dedup check of a posting
CheckStep ==
    \/ pc = "seen" /\ pc' # "seen"
    \/ /\ pc = "process"
       /\ CurrentList # 0
       /\ ~NeedsFilter(CurrentList, NextJob)
       /\ lists' # lists

\* This step lets a posting through its dedup check: its fan-out follows
PassStep == CheckStep /\ pc' = "mark"

\* This step is the dedup write of the posting in cur
WriteStep == pc = "mark" /\ pc' = "broadcast"

TitleExcluded(title, keywords) ==
    AnyLowerIn(keywords, Lower(title))

\* company contains one of the blocked entries, compared without case
CompanyBlocked(company, blocked) ==
    AnyLowerIn(blocked, Lower(company))

C4_FailOpen ==
    [][CheckStep /\ ~redisUp =>
          /\ ~is_already_seen(redisUp, seen, JobKey(Checked), now)
          /\ pc' = "mark"
          /\ cur' = Some([job |-> Checked,
                          list |-> IF pc = "seen" THEN Get(cur).list ELSE CurrentList])]_vars

\* A posting with a live record passed its check because Redis was down
C4_Witness ==
    /\ pc = "mark"
    /\ trace = <<"failopen">>
    /\ Live(seen, JobKey(Get(cur).job), now)

\* The fan-out of one posting, in the order of the loop body
FanOut == <<"write", "broadcast", "telegram">>

\* The fan-out steps taken so far for the posting checked last
Steps == IF trace = <<>> THEN <<>> ELSE Tail(trace)

\* C5: the steps taken for a posting are always a prefix of write, broadcast,
\* telegram: the broadcast is never sent before the dedup write was issued
\* and the Telegram message never before the broadcast.
C5_WriteBroadcastTelegram ==
    /\ Len(Steps) <= Len(FanOut)
    /\ \A i \in DOMAIN Steps : Steps[i] = FanOut[i]
    /\ (pc = "broadcast" => Steps = <<"write">>)
    /\ (pc = "telegram" => Steps = <<"write", "broadcast">>)

\* A posting went through the whole fan-out
C5_Witness == Len(trace) = 4 /\ Steps = FanOut

\* The connections of a list whose send succeeds, in list order
Good(conns, failing) == SelectSeq(conns, LAMBDA w : w \notin failing)

\* C6: a broadcast sends its frame exactly once to every connection whose
\* send succeeds, and when it returns active_connections holds exactly those
\* connections.
C6_BroadcastExact ==
    [][pc = "broadcast" /\ pc' = "telegram" =>
          /\ delivered' = Good(active_connections, Failing)
          /\ active_connections' = Good(active_connections, Failing)]_vars

\* C7: an exception in the cycle body is caught and followed by the sleep,
\* and every cycle is followed by the start of the next one (up to the
\* MaxCycles cycles of the model).
C7_LoopContinues ==
    /\ \A c \in 0..(MaxCycles - 1) : (cycle = c) ~> (cycle = c + 1)
    /\ (pc = "raised") ~> (pc = "sleep")
    /\ [](pc \in {"start", "gather", "raised", "process", "seen", "mark", "broadcast",
                  "telegram", "sleep"})

\* A cycle started after the cycle before it had raised
C7_Witness == proxyMalformed /\ cycle = 2 /\ pc = "gather"

\* C8: no fetch handed to gather raises: the gather phase of a cycle always
\* ends with one result per call.
C8_AdaptersNeverRaise ==
    [][pc = "gather" => pc' \in {"gather", "process"}]_vars

\* C9: a record whose TTL has run out is not found any more; a posting of
\* that identity that reaches the dedup check while Redis is reachable passes
\* it, and the write that follows stores a new live record with the posting's
\* snapshot.
C9_ExpiredRecordAlertsAgain ==
    [][/\ \A k \in DOMAIN windowEnd :
             WindowOver(k) => ~is_already_seen(TRUE, seen, k, now)
       /\ (CheckStep /\ redisUp /\ WindowOver(JobKey(Checked)) => pc' = "mark")
       /\ (WriteStep /\ redisUp =>
               /\ Live(seen', JobKey(Get(cur).job), now)
               /\ seen'[JobKey(Get(cur).job)].value = Get(cur).job
               /\ WindowOpen(JobKey(Get(cur).job))')]_vars

\* An identity alerted before is alerted again after its record expired
C9_Witness ==
    /\ Len(trace) >= 2
    /\ trace[1] = "expired"
    /\ trace[2] = "write"
    /\ pc = "broadcast"
    /\ Live(seen, JobKey(Get(cur).job), now)

\* C10: once the statistics of a cycle are computed, passed and failed are
\* the numbers of results without and with the failed flag, they add up to
\* total_calls, and success_rate is passed / total_calls * 100, or 0 when
\* there was no call.
C10_StatsConsistent ==
    pc = "process" /\ DOMAIN results = DOMAIN calls =>
        LET total == Cardinality(DOMAIN results)
            failedCalls == {i \in DOMAIN results : results[i].failed}
            passedCalls == {i \in DOMAIN results : ~results[i].failed}
            rate == stats.success_rate
        IN /\ stats.total_calls = total
           /\ stats.failed = Cardinality(failedCalls)
           /\ stats.passed = Cardinality(passedCalls)
           /\ stats.passed + stats.failed = stats.total_calls
           /\ rate.den > 0
           /\ IF total = 0 THEN rate.num = 0
              ELSE rate.num * total = stats.passed * 100 * rate.den

\* Statistics of a cycle with passed and failed calls
C10_Witness ==
    /\ pc = "process"
    /\ stats.total_calls = MaxCalls
    /\ stats.failed > 0
    /\ stats.passed > 0

\* This step is the return of send_telegram_alert
TelegramStep == pc = "telegram" /\ pc' # "telegram"

\* C11: whatever the outcome of the POST to Telegram (200, another status, a
\* connection error), send_telegram_alert returns to the loop: nothing is
\* raised, the dedup record and the subscribers of the posting are as the
\* write and the broadcast left them, and the postings still queued in the
\* cycle stay queued for processing.
C11_TelegramFailureContained ==
    [][TelegramStep =>
          /\ pc' = "process"
          /\ seen' = seen
          /\ active_connections' = active_connections
          /\ delivered' = delivered
          /\ lists' = lists]_vars

\* After a failed POST for one posting, the next posting of the cycle has
\* been recorded and broadcast and is about to be sent
C11_Witness ==
    /\ telegram \in {"500", "error"}
    /\ pc = "telegram"
    /\ Cardinality(DOMAIN seen) = 2

\* ------------------------------------------------------------------------
\* The Jobright credentials over two cycles (services/jobright_auth.py)
\* ------------------------------------------------------------------------
\* Values of settings.JOBRIGHT_COOKIES: not set, or a cookie header given by hand
ManualCookieChoices == {"", "manual"}

\* The process starts with Redis reachable and a usable proxy setting; the
\* Jobright cookies are given in the settings or obtained by login.
InitAuth ==
    /\ now = 0
    /\ cycle = 0
    /\ pc = "start"
    /\ target_keywords = <<>>
    /\ calls = <<>>
    /\ results = EmptyMap
    /\ lists = EmptyLists
    /\ cur = None
    /\ stats = NoStats
    /\ redisUp = TRUE
    /\ outages = 0
    /\ seen = EmptyMap
    /\ DEFAULT_BLOCKED_COMPANIES = INITIAL_BLOCKED_COMPANIES
    /\ config = SeedConfigIfMissing(TRUE, UnsetConfig, INITIAL_BLOCKED_COMPANIES)
    /\ adminOps = 0
    /\ active_connections = <<>>
    /\ socket = [w \in Sockets |-> "new"]
    /\ cached_cookies = ""
    /\ cookie_expiry = None
    /\ JOBRIGHT_COOKIES \in ManualCookieChoices
    /\ auth = <<>>
    /\ proxyMalformed = FALSE
    /\ handlers = <<>>
    /\ sending = None
    /\ authTasks = NoAuthTasks
    /\ batch = 0
    /\ faults = 0
    /\ windowEnd = EmptyMap
    /\ trace = <<>>
    /\ delivered = <<>>
    /\ event = None
    /\ blocking = None
    /\ configuredIn = 0
    /\ telegram = ""
    /\ reply = None
    /\ fetching = {}
    /\ request = None

NextAuth ==
    \/ StartCycle
    \/ \E i \in 1..8 : AdapterReturn(i)
    \/ \E i \in 1..8 : JobrightReturn(i)
    \/ Aggregate
    \/ FilterJob
    \/ CheckSeen
    \/ MarkSeen
    \/ BroadcastNewJob
    \/ SendTelegram
    \/ EndCycle
    \/ Sleep

SpecAuth == InitAuth /\ [][NextAuth]_vars

\* This step is the return of fetch_jobright_jobs
JobrightStep ==
    /\ pc = "gather"
    /\ NextCall \in DOMAIN calls
    /\ calls[NextCall] = "Jobright"
    /\ results' # results

\* The last Jobright fetch was answered 401 or 403
Rejected == auth # <<>> /\ auth[2] = "auth"

C12_RejectedFetchEnds ==
    [][JobrightStep /\ auth'[2] = "auth" =>
          /\ results'[NextCall].failed
          /\ results'[NextCall].retries = 1
          /\ cached_cookies' = ""
          /\ cookie_expiry' = None]_vars

\* C12 where no cookies are given in the settings
C12_LoginAfterRejection ==
    [][JobrightStep /\ Rejected /\ JOBRIGHT_COOKIES = "" => auth'[1] = "login"]_vars

\* ------------------------------------------------------------------------
\* POST /jobs/block served while the scraper task works through a cycle
\* ------------------------------------------------------------------------
NextBlock ==
    \/ Aggregate
    \/ FilterJob
    \/ CheckSeen
    \/ MarkSeen
    \/ BroadcastNewJob
    \/ SendTelegram
    \/ EndCycle
    \/ \E company \in BlockChoices : BlockListed(company)
    \/ BlockScanned
    \/ BlockBroadcast

SpecBlock == InitProcess /\ [][NextBlock]_vars

\* The block request has returned success
BlockDone == blocking # None /\ Get(blocking).stage = "done"

C13_ListedAndScanned ==
    /\ [](blocking # None => InList(get_blocked_companies, Get(blocking).company))
    /\ [][blocking # None /\ Get(blocking).stage = "listed" /\ Get(blocking').stage = "scanned"
              => KeysOfCompany(seen', Get(blocking).company) = {}]_vars

\* C13 at the moment the handler returns success: no record of the company is
\* stored (refuted: the loop writes one between the scan and the return)
C13_NoRecordAtReturn ==
    [][BlockDone' /\ ~BlockDone => KeysOfCompany(seen', Get(blocking).company) = {}]_vars

\* ------------------------------------------------------------------------
\* The administrative requests served while the scraper task works through
\* a cycle
\* ------------------------------------------------------------------------
NextAdmin ==
    \/ Aggregate
    \/ FilterJob
    \/ CheckSeen
    \/ MarkSeen
    \/ BroadcastNewJob
    \/ SendTelegram
    \/ EndCycle
    \/ \E key \in CONFIG_KEYS : \E value \in ConfigChoices(key) : PutConfig(key, value)
    \/ \E company \in BlockChoices : BlockCompany(company)
    \/ \E key \in DismissChoices : DismissJob(key)

SpecAdmin == InitProcess /\ [][NextAdmin]_vars

\* C14: dismiss_job(source, external_id) removes at most the record of that
\* key, and removes it when it is stored; every other record is as it was, and
\* so are the four stored config lists and the default blocked list.
C14_DismissDeletesOneRecord ==
    [][\A key \in DismissChoices :
          DismissJob(key) =>
             /\ DOMAIN seen' = DOMAIN seen \ {key}
             /\ \A k \in DOMAIN seen' : seen'[k] = seen[k]
             /\ config' = config
             /\ DEFAULT_BLOCKED_COMPANIES' = DEFAULT_BLOCKED_COMPANIES]_vars

\* One of two stored records has been dismissed; the other is still stored
C14_Witness ==
    /\ event # None
    /\ Get(event).type = "JOB_DISMISSED"
    /\ Cardinality(DOMAIN seen) = 1
    /\ \A k \in DOMAIN seen : k[2] \notin Get(event).external_ids

LocationMatches(job) ==
    \/ Contains(Chars(S_remote), Lower(job.location))
    \/ AnyLowerIn(get_target_locations, Lower(job.location))

\* This step is the dedup write of a posting of the general pool (all_jobs)
GeneralWriteStep == WriteStep /\ Get(cur).list = 1

FilterStep ==
    /\ pc = "process"
    /\ CurrentList # 0
    /\ NeedsFilter(CurrentList, NextJob)
    /\ lists' # lists

\* Seconds from the posting's time to now, a time without tzinfo read as UTC
AgeInUtc(job) ==
    LET given == Get(job.posted_at)
    IN now - (given.wall - (IF given.tzinfo = None THEN 0 ELSE Get(given.tzinfo)))

\* The posting has a posted_at and its age is at most the recency window
InWindow(job) == job.posted_at # None /\ AgeInUtc(job) <= JOB_RECENCY_MINUTES * 60

\* C17: a posting of the general pool from a non-exempt source goes on to the
\* dedup check only if it has a posted_at whose age, a naive time read as UTC,
\* is at most JOB_RECENCY_MINUTES; with such an age and a matching title it
\* does go on; otherwise it is dropped with no dedup check and no write.
C17_RecencyStep ==
    [][FilterStep =>
          /\ (pc' = "seen" => InWindow(NextJob))
          /\ (InWindow(NextJob) /\ matches_target_keywords(NextJob, get_target_keywords)
                 => pc' = "seen")
          /\ (~InWindow(NextJob) =>
                 /\ pc' = "process"
                 /\ cur' = cur
                 /\ seen' = seen
                 /\ trace' = trace)]_vars

\* A posting whose time was written without an offset, aged exactly the
\* window, has passed the recency step
C17_Witness ==
    /\ pc = "seen"
    /\ cur # None
    /\ Get(cur).job.source = "LinkedIn"
    /\ Get(Get(cur).job.posted_at).tzinfo = None
    /\ AgeInUtc(Get(cur).job) = JOB_RECENCY_MINUTES * 60

\* Some keyword of the list, lowercased, is a substring of the lowercased title
TitleMatches(job, keywords) ==
    \E i \in DOMAIN keywords : Contains(Lower(keywords[i]), Lower(job.title))

\* C18: a posting of the general pool from a non-exempt source goes on to the
\* dedup check exactly when it is recent and its lowercased title contains a
\* lowercased keyword of the target list as the store holds it at that moment;
\* when that list is empty the posting is dropped without check, write or alert.
C18_KeywordStep ==
    [][FilterStep =>
          /\ (pc' = "seen" <=>
                 InWindow(NextJob) /\ TitleMatches(NextJob, get_target_keywords))
          /\ (get_target_keywords = <<>> =>
                 /\ pc' = "process"
                 /\ cur' = cur
                 /\ seen' = seen
                 /\ trace' = trace)]_vars

\* The target list was emptied during the cycle, and the cycle's fresh
\* LinkedIn posting titled "Backend" has been dropped
C18_Witness ==
    /\ get_target_keywords = <<>>
    /\ pc = "process"
    /\ CurrentList = 0
    /\ cur = None
    /\ results[1].jobs # <<>>
    /\ LET job == results[1].jobs[1]
       IN /\ job.source = "LinkedIn"
          /\ job.title = S_Backend
          /\ InWindow(job)
          /\ JobKey(job) \notin DOMAIN seen

\* This step takes the next posting of one of the four recent pools
\* (minisites_recent_jobs, fidelity_jobs, statestreet_jobs, mathworks_jobs)
RecentPoolStep ==
    /\ pc = "process"
    /\ CurrentList \in 2..5
    /\ lists' # lists

\* C19: a posting of a recent pool meets the dedup check and nothing else:
\* it is skipped when Redis answers that its key exists, and goes on to the
\* write and the alerts otherwise, whatever its title and posted_at.
C19_RecentPoolDedupOnly ==
    [][RecentPoolStep =>
          IF redisUp /\ Live(seen, JobKey(NextJob), now)
          THEN pc' = "process" /\ cur' = None
          ELSE pc' = "mark" /\ cur' = Some([job |-> NextJob, list |-> CurrentList])]_vars

\* A recent-pool posting whose title has no target keyword, or that has no
\* posted_at, has been recorded and broadcast
C19_Witness ==
    /\ pc = "telegram"
    /\ Get(cur).list \in 2..5
    /\ JobKey(Get(cur).job) \in DOMAIN seen
    /\ ~TitleMatches(Get(cur).job, get_target_keywords)
    /\ Get(cur).job.title = S_Analyst

\* This step is the top of a cycle: the keyword read and the calls handed to gather
CycleStartStep == pc = "start" /\ pc' = "gather"

\* This step is the return of one of the fetches of gather
FetchStep == pc = "gather" /\ NextCall \in DOMAIN calls /\ results' # results

C20_TargetKeywordsFresh ==
    [][CycleStartStep =>
          /\ target_keywords' = get_target_keywords
          /\ Len(SelectSeq(calls', LAMBDA c : c = "LinkedIn")) = Len(get_target_keywords)]_vars

\* A cycle started with the keyword list an administrative request stored
\* during the cycle before
C20_FreshWitness ==
    /\ cycle = 2
    /\ pc = "gather"
    /\ configuredIn = 1
    /\ target_keywords = <<>>
    /\ redisUp

\* ------------------------------------------------------------------------
\* A process lifetime spent without Redis
\* ------------------------------------------------------------------------
\* What the unreachable store holds from an earlier run of the process: an
\* edited keyword list and the dedup record of an alert
StoredBefore ==
    [SeedConfigIfMissing(TRUE, UnsetConfig, INITIAL_BLOCKED_COMPANIES)
        EXCEPT !["target_keywords"] = Some(<<S_Analyst>>)]

SeenBefore ==
    LET job == JobCreate("LinkedIn", RawItem("L1", S_Backend, S_Acme, Some(120), ""),
                         S_Acme, None)
    IN [k \in {JobKey(job)} |-> [value |-> job, expiry |-> Some(SEEN_JOB_TTL_SECONDS)]]

\* lifespan(): ping raises, the error is logged, seed_config_if_missing is
\* skipped and the loop task is created all the same
InitOutage ==
    /\ now = 0
    /\ cycle = 0
    /\ pc = "start"
    /\ target_keywords = <<>>
    /\ calls = <<>>
    /\ results = EmptyMap
    /\ lists = EmptyLists
    /\ cur = None
    /\ stats = NoStats
    /\ redisUp = FALSE
    /\ outages = 1
    /\ seen \in {EmptyMap, SeenBefore}
    /\ DEFAULT_BLOCKED_COMPANIES = INITIAL_BLOCKED_COMPANIES
    /\ config \in {UnsetConfig, StoredBefore}
    /\ adminOps = 0
    /\ active_connections = <<>>
    /\ socket = [w \in Sockets |-> "new"]
    /\ cached_cookies = ""
    /\ cookie_expiry = None
    /\ JOBRIGHT_COOKIES = ""
    /\ auth = <<>>
    /\ proxyMalformed = FALSE
    /\ handlers = <<>>
    /\ sending = None
    /\ authTasks = NoAuthTasks
    /\ batch = 0
    /\ faults = 0
    /\ windowEnd = EmptyMap
    /\ trace = <<>>
    /\ delivered = <<>>
    /\ event = None
    /\ blocking = None
    /\ configuredIn = 0
    /\ telegram = ""
    /\ reply = None
    /\ fetching = {}
    /\ request = None

\* The scraper task while Redis stays unreachable
NextOutage ==
    \/ StartCycle
    \/ \E i \in 1..8 : AdapterReturn(i)
    \/ \E i \in 1..8 : JobrightReturn(i)
    \/ Aggregate
    \/ FilterJob
    \/ CheckSeen
    \/ MarkSeen
    \/ BroadcastNewJob
    \/ SendTelegram
    \/ EndCycle
    \/ Sleep

SpecOutage == InitOutage /\ [][NextOutage]_vars /\ WF_vars(NextOutage)

\* C21: with Redis unreachable from startup on, the loop starts and each of
\* its cycles reaches its sleep; the cycle works with the compiled-in default
\* keywords whatever the store holds, every dedup check lets its posting
\* through, a posting of the general pool passes its filters exactly when it
\* is recent and matches a default keyword, and every posting let through
\* gets its whole fan-out.
C21_OutageCycle ==
    /\ [][/\ (CycleStartStep => target_keywords' = DEFAULT_TARGET_KEYWORDS)
          /\ (FilterStep =>
                (pc' = "seen" <=> InWindow(NextJob)
                                  /\ TitleMatches(NextJob, DEFAULT_TARGET_KEYWORDS)))
          /\ (CheckStep => pc' = "mark")]_vars
    /\ ((pc = "mark") ~> (pc = "process" /\ Steps = FanOut))
    /\ \A c \in 1..MaxCycles : (cycle = c /\ pc = "gather") ~> (cycle = c /\ pc = "sleep")

\* Redis down since startup, the store holding another keyword list and the
\* posting's record: the posting was alerted again and the cycle ended
C21_Witness ==
    /\ ~redisUp
    /\ config = StoredBefore
    /\ pc = "sleep"
    /\ event # None
    /\ \E k \in DOMAIN seen : Live(seen, k, now) /\ k[2] \in Get(event).external_ids

\* ------------------------------------------------------------------------
\* seed_config_if_missing at process start
\* ------------------------------------------------------------------------
\* "for key, redis_key in CONFIG_KEYS.items()": the dict's order
ConfigKeyOrder ==
    <<"target_keywords", "target_locations", "blocked_companies", "title_filter_keywords">>

\* Sensitivity variant of SeedConfigUpTo: SET without the EXISTS test
SeedConfigUpTo_overwriting(cfg, dflt_blocked, n) ==
    [k \in CONFIG_KEYS |->
        IF \E i \in 1..n : ConfigKeyOrder[i] = k
        THEN Some(DefaultOf(k, dflt_blocked))
        ELSE cfg[k]]

\* seed_config_if_missing when its first n keys are handled and the Redis
\* call for key n+1 raises (n = 4: no call raises); the except clause of the
\* one try around the loop ends it there
SeedConfigUpTo(cfg, dflt_blocked, n) ==
    [k \in CONFIG_KEYS |->
        IF (\E i \in 1..n : ConfigKeyOrder[i] = k) /\ cfg[k] = None
        THEN Some(DefaultOf(k, dflt_blocked))
        ELSE cfg[k]]

\* The lists a store can hold under one name: nothing, the empty list, a
\* list that is not the default
StoredChoices == {None, Some(<<>>), Some(<<S_Analyst>>)}

\* A process start on any store
InitSeed ==
    /\ now = 0
    /\ cycle = 0
    /\ pc = "boot"
    /\ target_keywords = <<>>
    /\ calls = <<>>
    /\ results = EmptyMap
    /\ lists = EmptyLists
    /\ cur = None
    /\ stats = NoStats
    /\ redisUp \in BOOLEAN
    /\ outages = 0
    /\ seen = EmptyMap
    /\ DEFAULT_BLOCKED_COMPANIES = INITIAL_BLOCKED_COMPANIES
    /\ config \in [CONFIG_KEYS -> StoredChoices]
    /\ adminOps = 0
    /\ active_connections = <<>>
    /\ socket = [w \in Sockets |-> "new"]
    /\ cached_cookies = ""
    /\ cookie_expiry = None
    /\ JOBRIGHT_COOKIES = ""
    /\ auth = <<>>
    /\ proxyMalformed = FALSE
    /\ handlers = <<>>
    /\ sending = None
    /\ authTasks = NoAuthTasks
    /\ batch = 0
    /\ faults = 0
    /\ windowEnd = EmptyMap
    /\ trace = <<>>
    /\ delivered = <<>>
    /\ event = None
    /\ blocking = None
    /\ configuredIn = 0
    /\ telegram = ""
    /\ reply = None
    /\ fetching = {}
    /\ request = None

\* lifespan() up to its yield: ping, then seed_config_if_missing; Redis can
\* fail at the ping (n = 0) or at any key of the seeding loop
Boot ==
    /\ pc = "boot"
    /\ \E n \in 0..Len(ConfigKeyOrder) :
          /\ ~redisUp => n = 0
          /\ config' = SeedConfigUpTo(config, DEFAULT_BLOCKED_COMPANIES, n)
          /\ redisUp' = (n = Len(ConfigKeyOrder))
    /\ pc' = "start"
    /\ UNCHANGED <<now, cycle, target_keywords, calls, results, lists, cur, stats, batch,
                   faults, trace, outages, seen, DEFAULT_BLOCKED_COMPANIES, adminOps,
                   blocking, wsVars, authVars, proxyMalformed, handlers, sending, authTasks, reply, fetching, request, windowEnd, configuredIn, telegram>>

\* lifespan() after its yield: the process stops; Redis keeps what it holds
\* and is reachable or not at the next start
Shutdown ==
    /\ pc = "start"
    /\ pc' = "boot"
    /\ redisUp' \in BOOLEAN
    /\ UNCHANGED <<now, cycle, target_keywords, calls, results, lists, cur, stats, batch,
                   faults, trace, outages, seen, config, DEFAULT_BLOCKED_COMPANIES,
                   adminOps, blocking, wsVars, authVars, proxyMalformed, handlers, sending, authTasks, reply, fetching, request, windowEnd,
                   configuredIn, telegram>>

NextSeed ==
    \/ Boot
    \/ Shutdown

SpecSeed == InitSeed /\ [][NextSeed]_vars

\* This step is a run of seed_config_if_missing; no Redis call of it raised
\* when Redis is reachable afterwards
SeedStep == pc = "boot" /\ pc' = "start"

AllStored(cfg) == \A k \in CONFIG_KEYS : cfg[k] # None

\* C22: a run of seed_config_if_missing leaves every stored list as it is,
\* the empty list included; when none of its Redis calls fails it stores the
\* compiled-in default under every name that had no list, and a run of it on
\* a store that went through a complete run changes nothing.
C22_SeedOnlyMissing ==
    [][SeedStep =>
          /\ \A k \in CONFIG_KEYS : config[k] # None => config'[k] = config[k]
          /\ redisUp' =>
                /\ \A k \in CONFIG_KEYS :
                      config[k] = None =>
                          config'[k] = Some(DefaultOf(k, INITIAL_BLOCKED_COMPANIES))
                /\ AllStored(config')
                /\ (AllStored(config) => config' = config)]_vars

\* A second complete run on a store the first run filled: one name had kept
\* its stored empty list, another got its default
C22_Witness ==
    /\ pc = "boot"
    /\ redisUp
    /\ AllStored(config)
    /\ config["target_keywords"] = Some(<<>>)
    /\ config["target_locations"] = Some(DEFAULT_TARGET_LOCATIONS)

\* ------------------------------------------------------------------------
\* get_config_list called on any store
\* ------------------------------------------------------------------------
\* The names a caller can pass: the four lists and a name CONFIG_KEYS lacks
ConfigNames == CONFIG_KEYS \cup {"job_sources"}

\* The default a caller passes: the list's compiled-in default, or a list
\* of its own
DefaultChoices(key) == {DefaultOf(key, INITIAL_BLOCKED_COMPANIES), <<S_remote>>}

\* A call of get_config_list(redis_client, key, default) returns
GetConfigListCall(key, default) ==
    /\ pc = "start"
    /\ reply' = Some([key |-> key, default |-> default,
                      value |-> GetConfigList(redisUp, config, key, default)])
    /\ UNCHANGED <<now, cycle, loopVars, redisVars, DEFAULT_BLOCKED_COMPANIES, adminOps,
                   blocking, wsVars, authVars, proxyMalformed, handlers, sending, authTasks, fetching, request, windowEnd, configuredIn,
                   telegram>>

\* Redis becomes unreachable or reachable while the process runs
RedisFlip ==
    /\ pc = "start"
    /\ redisUp' = ~redisUp
    /\ UNCHANGED <<now, cycle, loopVars, outages, seen, config, DEFAULT_BLOCKED_COMPANIES,
                   adminOps, blocking, wsVars, authVars, proxyMalformed, handlers, sending, authTasks, reply, fetching, request, windowEnd,
                   configuredIn, telegram>>

NextConfig ==
    \/ Boot
    \/ \E key \in ConfigNames : \E default \in DefaultChoices(key) :
          GetConfigListCall(key, default)
    \/ RedisFlip

SpecConfig == InitSeed /\ [][NextConfig]_vars

\* This step is a return of get_config_list
ConfigReadStep == reply' # reply

\* C23: a call of get_config_list returns the stored list when the name is
\* one of the four, the read succeeds and a list is stored under it, the
\* empty list included; otherwise it returns the default it was given; every
\* call returns.
C23_StoredOrDefault ==
    [][ConfigReadStep =>
          /\ reply' # None
          /\ LET r == Get(reply')
             IN IF r.key \in CONFIG_KEYS /\ redisUp /\ config[r.key] # None
                THEN r.value = Get(config[r.key])
                ELSE r.value = r.default]_vars

\* A call returned a stored empty list although a non-empty default was given
C23_Witness ==
    /\ reply # None
    /\ redisUp
    /\ Get(reply).key = "target_keywords"
    /\ config["target_keywords"] = Some(<<>>)
    /\ Get(reply).default # <<>>
    /\ Get(reply).value = <<>>

\* ------------------------------------------------------------------------
\* Records without expiry
\* ------------------------------------------------------------------------
\* Redis holds a record without TTL under this key
PermanentRecord(key) == key \in DOMAIN seen /\ seen[key].expiry = NoExpiry

\* This step serves an administrative request
AdminStep == adminOps' # adminOps

\* C24: the dedup write of a MathWorks posting stores a record without
\* expiry; such a record stays as it is through every step that is not an
\* administrative request, the sleeps included; and while it is stored a
\* dedup check that reaches Redis never lets its identity through.
C24_PermanentRecordKept ==
    [][/\ \A k \in DOMAIN seen :
             seen[k].expiry = NoExpiry /\ ~AdminStep => k \in DOMAIN seen' /\ seen'[k] = seen[k]
       /\ (WriteStep /\ redisUp /\ Get(cur).job.source = "MathWorks" =>
             seen'[JobKey(Get(cur).job)].expiry = NoExpiry)
       /\ (PassStep /\ redisUp => ~PermanentRecord(JobKey(Checked)))]_vars

\* A day after its alert a MathWorks posting came again and was skipped
C24_Witness ==
    /\ cycle = 2
    /\ now >= FIDELITY_TTL_SECONDS
    /\ trace = <<"hit">>
    /\ \E k \in DOMAIN seen : k[1] = "MathWorks" /\ PermanentRecord(k) /\ windowEnd[k] = NoExpiry

\* ------------------------------------------------------------------------
\* asyncio.gather and the fetch coroutines, one task each
\* ------------------------------------------------------------------------
\* The loop with the settings' Jobright cookies in use and clean upstreams
InitGather ==
    /\ now = 0
    /\ cycle = 0
    /\ pc = "start"
    /\ target_keywords = <<>>
    /\ calls = <<>>
    /\ results = EmptyMap
    /\ lists = EmptyLists
    /\ cur = None
    /\ stats = NoStats
    /\ redisUp = TRUE
    /\ outages = 0
    /\ seen = EmptyMap
    /\ DEFAULT_BLOCKED_COMPANIES = INITIAL_BLOCKED_COMPANIES
    /\ config = SeedConfigIfMissing(TRUE, UnsetConfig, INITIAL_BLOCKED_COMPANIES)
    /\ adminOps = 0
    /\ active_connections = <<>>
    /\ socket = [w \in Sockets |-> "new"]
    /\ cached_cookies = ""
    /\ cookie_expiry = None
    /\ JOBRIGHT_COOKIES = "manual"
    /\ auth = <<>>
    /\ proxyMalformed \in BOOLEAN
    /\ handlers = <<>>
    /\ sending = None
    /\ authTasks = NoAuthTasks
    /\ batch = 0
    /\ faults = 0
    /\ windowEnd = EmptyMap
    /\ trace = <<>>
    /\ delivered = <<>>
    /\ event = None
    /\ blocking = None
    /\ configuredIn = 0
    /\ telegram = ""
    /\ reply = None
    /\ fetching = {}
    /\ request = None

\* Top of the while body: gather wraps each coroutine in a task
LaunchFetches ==
    /\ pc = "start"
    /\ cycle < MaxCycles
    /\ cycle' = cycle + 1
    /\ target_keywords' = get_target_keywords
    /\ calls' = [i \in 1..Len(target_keywords') |-> "LinkedIn"]
                \o <<"Jobright", "JobrightMiniSites", "Fidelity", "StateStreet", "MathWorks">>
    /\ results' = EmptyMap
    /\ lists' = EmptyLists
    /\ batch' = 0
    /\ pc' = "gather"
    /\ fetching' = fetching \cup
                   {[cycle |-> cycle', call |-> i, source |-> calls'[i]] : i \in DOMAIN calls'}
    /\ UNCHANGED <<now, cur, stats, faults, trace, redisVars, DEFAULT_BLOCKED_COMPANIES,
                   adminOps, blocking, wsVars, authVars, proxyMalformed, handlers, sending, authTasks, reply, request, windowEnd,
                   configuredIn, telegram>>

\* gather is still awaited for the cycle this task belongs to
Awaited(t) == pc = "gather" /\ t.cycle = cycle

\* Sensitivity variant of FetchRaise: the exception cancels the sibling tasks
FetchRaise_cancelling(t) ==
    /\ t \in fetching
    /\ proxyMalformed /\ t.source \in ProxySources
    /\ fetching' = {u \in fetching : u.cycle # t.cycle}
    /\ pc' = IF Awaited(t) THEN "raised" ELSE pc
    /\ UNCHANGED <<now, cycle, target_keywords, calls, results, lists, cur, stats, batch,
                   faults, trace, redisVars, DEFAULT_BLOCKED_COMPANIES, adminOps, blocking,
                   wsVars, authVars, proxyMalformed, handlers, sending, authTasks, reply, request, windowEnd, configuredIn, telegram>>

\* A fetch task returns its dict, whenever it is done. gather stores it by
\* position while it is awaited; once gather has raised nobody reads it.
FetchReturn(t) ==
    /\ t \in fetching
    /\ ~(proxyMalformed /\ t.source \in ProxySources)
    /\ fetching' = fetching \ {t}
    /\ IF Awaited(t)
       THEN \E body \in {b \in Bodies(t.source, MaxBatch - batch) : b.parsable} :
               /\ batch' = batch + Len(body.items)
               /\ results' = Store(t.call, FetchResult(t.source, CleanScript, body,
                                       TitlesFor(t.source), BlockedFor(t.source), now))
       ELSE UNCHANGED <<batch, results>>
    /\ UNCHANGED <<now, cycle, pc, target_keywords, calls, lists, cur, stats, faults, trace,
                   redisVars, DEFAULT_BLOCKED_COMPANIES, adminOps, blocking, wsVars, authVars,
                   proxyMalformed, handlers, sending, authTasks, reply, request, windowEnd, configuredIn, telegram>>

\* A fetch task raises (AsyncClient built outside the try, malformed proxy).
\* gather, without return_exceptions, passes the first exception to the loop
\* at once and leaves the other tasks running; a later exception is dropped.
FetchRaise(t) ==
    /\ t \in fetching
    /\ proxyMalformed /\ t.source \in ProxySources
    /\ fetching' = fetching \ {t}
    /\ pc' = IF Awaited(t) THEN "raised" ELSE pc
    /\ UNCHANGED <<now, cycle, target_keywords, calls, results, lists, cur, stats, batch,
                   faults, trace, redisVars, DEFAULT_BLOCKED_COMPANIES, adminOps, blocking,
                   wsVars, authVars, proxyMalformed, handlers, sending, authTasks, reply, request, windowEnd, configuredIn, telegram>>

\* Every task the model can hold
FetchTasks ==
    [cycle : 1..MaxCycles, call : 1..8, source : Sources]

NextGather ==
    \/ LaunchFetches
    \/ \E t \in FetchTasks : FetchReturn(t)
    \/ \E t \in FetchTasks : FetchRaise(t)
    \/ Aggregate
    \/ FilterJob
    \/ CheckSeen
    \/ MarkSeen
    \/ BroadcastNewJob
    \/ SendTelegram
    \/ EndCycle
    \/ CatchError
    \/ Sleep

SpecGather == InitGather /\ [][NextGather]_vars

C25_LoopSerialized ==
    [][/\ (pc' = "gather" /\ pc # "gather" => pc = "start")
       /\ (pc' = "start" => pc \in {"start", "sleep"})
       /\ (pc' = "sleep" => pc \in {"sleep", "process", "raised"})]_vars

\* The loop is filtering, checking or alerting the postings of its cycle
Processing == pc \in {"process", "seen", "mark", "broadcast", "telegram"}

\* Fetch tasks of the cycle the loop is in that have not ended
Running == {t \in fetching : t.cycle = cycle}

\* C26: while the loop filters, checks or alerts the postings of a cycle no
\* fetch of that cycle is still running, and it enters that phase with one
\* result per launched fetch; a fetch task ends only by its own return or
\* raise: a step ends at most one task, and the step in which gather raises
\* leaves the sibling tasks running.
C26_AllFetchesBeforeProcessing ==
    /\ [](Processing => Running = {})
    /\ [][/\ (pc = "gather" /\ pc' = "process" => DOMAIN results = DOMAIN calls)
          /\ Cardinality(fetching \ fetching') <= 1
          /\ (pc = "gather" /\ pc' = "raised" => Cardinality(Running \ fetching') = 1)]_vars

\* Six fetches were launched, all six returned, and a posting of theirs is
\* being alerted
C26_Witness ==
    /\ pc = "telegram"
    /\ Len(calls) = 6
    /\ DOMAIN results = DOMAIN calls
    /\ fetching = {}
    /\ cur # None

\* ------------------------------------------------------------------------
\* One adapter fetch, attempt by attempt
\* ------------------------------------------------------------------------
\* The return after the request loop: a non-200 status, or a body that
\* response.json() rejects, gives the failed dict
AfterLoop(source, status, retries_used, parsable) ==
    IF status # "200" THEN FailedResult(retries_used)
    ELSE IF ~parsable /\ source \in JsonSources THEN FailedResult(retries_used)
    ELSE [jobs |-> <<>>, retries |-> retries_used, failed |-> FALSE, recent_jobs |-> <<>>]

\* Sensitivity variant of AfterAttempt: a transient error is retried without
\* looking at max_retries (two attempts more are followed)
AfterAttempt_unbounded(r, o, parsable) ==
    LET met == [r EXCEPT !.played = Append(@, o)]
    IN
    IF o = "transient" /\ r.attempt < max_retries + 2
    THEN [met EXCEPT !.attempt = r.attempt + 1, !.retries_used = r.attempt]
    ELSE [met EXCEPT !.result = Some(FailedResult(r.retries_used))]

\* One pass of "for attempt in range(1, max_retries + 1)" in which the request
\* meets o, with the code after the loop when the pass ends it
AfterAttempt(r, o, parsable) ==
    LET met == [r EXCEPT !.played = Append(@, o)]
        further == r.attempt < max_retries
    IN IF o = "transient"
       THEN IF further
            THEN [met EXCEPT !.attempt = r.attempt + 1, !.retries_used = r.attempt]
            ELSE [met EXCEPT !.retries_used = r.attempt,
                             !.result = Some(FailedResult(r.attempt))]
       ELSE IF o = "error"
       THEN [met EXCEPT !.result = Some(FailedResult(r.retries_used))]
       ELSE IF StyleOf(r.source) = "auth" /\ o \in {"401", "403"}
       THEN [met EXCEPT !.status = o, !.result = Some(FailedResult(r.attempt))]
       ELSE IF StyleOf(r.source) = "first" \/ o = "200" \/ ~further
       THEN [met EXCEPT !.status = o,
                        !.result = Some(AfterLoop(r.source, o, r.retries_used, parsable))]
       ELSE [met EXCEPT !.attempt = r.attempt + 1, !.status = o]

\* A fetch_*_jobs call starts; fetch_jobright_jobs returns at once when
\* get_cookie_header gives no cookie
BeginFetch(source, cookie) ==
    /\ IF request = None THEN TRUE ELSE Get(request).result # None
    /\ source # "Jobright" => cookie
    /\ request' = Some([source |-> source, attempt |-> 1, retries_used |-> 0, status |-> "",
                        played |-> <<>>,
                        result |-> IF cookie THEN None ELSE Some(FailedResult(0))])
    /\ UNCHANGED <<now, cycle, loopVars, redisVars, DEFAULT_BLOCKED_COMPANIES, adminOps,
                   blocking, wsVars, authVars, proxyMalformed, handlers, sending, authTasks, reply, fetching, windowEnd,
                   configuredIn, telegram>>

\* The fetch sends its next request and goes on from what it meets
RequestAttempt ==
    /\ request # None
    /\ Get(request).result = None
    /\ \E o \in Outcomes, parsable \in BOOLEAN :
          request' = Some(AfterAttempt(Get(request), o, parsable))
    /\ UNCHANGED <<now, cycle, loopVars, redisVars, DEFAULT_BLOCKED_COMPANIES, adminOps,
                   blocking, wsVars, authVars, proxyMalformed, handlers, sending, authTasks, reply, fetching, windowEnd,
                   configuredIn, telegram>>

NextRetry ==
    \/ \E source \in Sources, cookie \in BOOLEAN : BeginFetch(source, cookie)
    \/ RequestAttempt

\* Each request gets its response, its error or its timeout
SpecRetry == InitAuth /\ [][NextRetry]_vars /\ WF_vars(RequestAttempt)

\* The fetch in request has returned its dict
Returned == request # None /\ Get(request).result # None

\* Transient network errors the fetch in request has met
Transients ==
    Len(SelectSeq(Get(request).played, LAMBDA o : o = "transient"))

\* The played outcomes as a script of max_retries entries
AsScript(played) ==
    [i \in 1..max_retries |-> IF i <= Len(played) THEN played[i] ELSE "200"]

\* The request loop followed step by step ends as RequestLoop computes it
RequestLoopAgrees ==
    Returned /\ Get(request).played # <<>> =>
        LET r == Get(request)
            o == RequestLoop(StyleOf(r.source), AsScript(r.played), 1, 0, "")
        IN Get(r.result).retries = o.retries

\* C27: a fetch sends at most max_retries requests: it has returned its dict
\* once the third is answered or fails; a fetch that is started returns,
\* whatever the requests meet; and when the three requests all meet a
\* transient network error the dict has failed = true.
C27_BoundedAttempts ==
    /\ [](request # None =>
            /\ Len(Get(request).played) <= max_retries
            /\ (Len(Get(request).played) = max_retries => Returned)
            /\ (Transients = max_retries => Returned /\ Get(Get(request).result).failed))
    /\ ((request # None) ~> Returned)

\* Two transient errors, then a 200: the fetch returned after three requests
C27_Witness ==
    /\ Returned
    /\ Get(request).played = <<"transient", "transient", "200">>
    /\ ~Get(Get(request).result).failed

C28_ZeroWithoutTransient ==
    Returned /\ Get(request).source # "Jobright" /\ Transients = 0 =>
        Get(Get(request).result).retries = 0

\* ------------------------------------------------------------------------
\* TTL of the dedup records
\* ------------------------------------------------------------------------
\* The expiry a record of this source is to get when written at time t
ExpiryBySource(source, t) ==
    CASE source = "Fidelity" -> Some(t + FIDELITY_TTL_SECONDS)
      [] source = "MathWorks" -> NoExpiry
      [] OTHER -> Some(t + SEEN_JOB_TTL_SECONDS)

\* C29: a dedup write that reaches Redis gives the record the expiry of its
\* posting's source: one day for Fidelity, none for MathWorks, the short TTL
\* for every other source; no other step of the loop changes the expiry of a
\* stored record.
C29_TtlBySource ==
    [][/\ (WriteStep /\ redisUp =>
             LET job == Get(cur).job
             IN /\ JobKey(job) \in DOMAIN seen'
                /\ seen'[JobKey(job)].expiry = ExpiryBySource(job.source, now))
       /\ \A k \in DOMAIN seen \cap DOMAIN seen' :
             seen'[k].expiry # seen[k].expiry => WriteStep /\ k = JobKey(Get(cur).job)]_vars

\* A Fidelity record with the one-day expiry and a MathWorks record without
\* expiry are stored
C29_Witness ==
    /\ \E k \in DOMAIN seen :
          k[1] = "Fidelity" /\ seen[k].expiry # NoExpiry
          /\ Get(seen[k].expiry) = FIDELITY_TTL_SECONDS
    /\ \E k \in DOMAIN seen : k[1] = "MathWorks" /\ seen[k].expiry = NoExpiry

\* ------------------------------------------------------------------------
\* Pools and filter exemptions
\* ------------------------------------------------------------------------
\* This step takes the next posting of the pool the loop is in
TakeStep == pc = "process" /\ CurrentList # 0 /\ lists' # lists

C30_RecentPoolsUnfiltered ==
    [][TakeStep /\ CurrentList # 1 => pc' = "mark" \/ trace' = <<"hit">>]_vars

\* ------------------------------------------------------------------------
\* Sources that report a recent pool
\* ------------------------------------------------------------------------
RecentPoolSources == {"JobrightMiniSites", "Fidelity", "StateStreet", "MathWorks"}

\* The posting is among the recent_jobs of a result of this cycle
InRecentJobs(job) ==
    \E i \in DOMAIN results : \E n \in DOMAIN results[i].recent_jobs :
        results[i].recent_jobs[n] = job

C31_OnlyRecentJobsWhenAny ==
    [][PassStep /\ Checked.source \in RecentPoolSources
          /\ (\E i \in DOMAIN results :
                 results[i].recent_jobs # <<>>
                 /\ results[i].recent_jobs[1].source = Checked.source)
          => InRecentJobs(Checked)]_vars

\* ------------------------------------------------------------------------
\* A dedup write that fails
\* ------------------------------------------------------------------------
\* This step is a dedup write issued while Redis is unreachable
FailedWriteStep == pc = "mark" /\ pc' # "mark" /\ ~redisUp

\* C32: a dedup write that fails raises nothing: the loop goes on to the
\* broadcast of the same posting, the Telegram message follows the broadcast,
\* the postings still queued stay queued, and no record is added, changed or
\* removed.
C32_WriteFailureContained ==
    /\ [][FailedWriteStep =>
             /\ pc' = "broadcast"
             /\ cur' = cur
             /\ lists' = lists
             /\ seen' = seen]_vars
    /\ [][pc = "broadcast" /\ pc' # "broadcast" => pc' = "telegram" /\ cur' = cur]_vars

\* The write of the first posting failed, the posting went out to Telegram,
\* and the second posting of the cycle is about to
C32_Witness ==
    /\ pc = "telegram"
    /\ ~redisUp
    /\ seen = EmptyMap
    /\ telegram = "200"
    /\ Get(cur).job.external_id = "P2"

\* ------------------------------------------------------------------------
\* The lifetime of a stored record
\* ------------------------------------------------------------------------
\* Every record that is stored and has not expired is the same after the step
LiveRecordsKept ==
    \A k \in DOMAIN seen :
        Live(seen, k, now) => k \in DOMAIN seen' /\ seen'[k] = seen[k]

RepeatCalls ==
    <<"LinkedIn", "LinkedIn", "Jobright", "JobrightMiniSites", "Fidelity", "StateStreet",
      "MathWorks">>

\* The one item every site may return: the same external id everywhere
RepeatItem ==
    RawItemZoned("P1", S_Backend, S_Acme, Some(120), Some(0), "Posted Today", S_UnitedStates)

\* gather has returned: each call answered 200 with either nothing or the item
InitRepeat ==
    /\ now = 0
    /\ cycle = 1
    /\ pc = "gather"
    /\ target_keywords = DEFAULT_TARGET_KEYWORDS
    /\ calls = RepeatCalls
    /\ \E returning \in SUBSET (DOMAIN RepeatCalls) :
          results = [i \in DOMAIN RepeatCalls |->
                        FetchResult(RepeatCalls[i], CleanScript,
                                    [parsable |-> TRUE,
                                     items |-> IF i \in returning THEN <<RepeatItem>> ELSE <<>>],
                                    DEFAULT_TITLE_FILTER_KEYWORDS, INITIAL_BLOCKED_COMPANIES, 0)]
    /\ lists = EmptyLists
    /\ cur = None
    /\ stats = NoStats
    /\ redisUp = TRUE
    /\ outages = 0
    /\ seen = EmptyMap
    /\ DEFAULT_BLOCKED_COMPANIES = INITIAL_BLOCKED_COMPANIES
    /\ config = SeedConfigIfMissing(TRUE, UnsetConfig, INITIAL_BLOCKED_COMPANIES)
    /\ adminOps = 0
    /\ active_connections = <<>>
    /\ socket = [w \in Sockets |-> "new"]
    /\ cached_cookies = "cookie"
    /\ cookie_expiry = Some(COOKIE_VALIDITY_HOURS * 3600)
    /\ JOBRIGHT_COOKIES = ""
    /\ auth = <<>>
    /\ proxyMalformed = FALSE
    /\ handlers = <<>>
    /\ sending = None
    /\ authTasks = NoAuthTasks
    /\ batch = 0
    /\ faults = 0
    /\ windowEnd = EmptyMap
    /\ trace = <<>>
    /\ delivered = <<>>
    /\ event = None
    /\ blocking = None
    /\ configuredIn = 0
    /\ telegram = ""
    /\ reply = None
    /\ fetching = {}
    /\ request = None

SpecRepeat == InitRepeat /\ [][NextProcess]_vars

\* C34: in a cycle during which Redis stays reachable, the dedup write of a
\* posting stores its record before the next posting is checked, and a posting
\* whose record is stored does not pass the dedup check: an identity returned
\* more than once in the cycle is alerted once.
C34_OncePerCycle ==
    /\ [][WriteStep /\ outages = 0 => Live(seen', JobKey(Get(cur).job), now)]_vars
    /\ [][PassStep /\ outages = 0 => JobKey(Checked) \notin DOMAIN seen]_vars

\* Both LinkedIn fetches returned P1; the first was alerted and the second
\* was skipped at its dedup check
C34_Witness ==
    /\ outages = 0
    /\ trace = <<"hit">>
    /\ lists[1] = <<>>
    /\ IF results[1].jobs = <<>> \/ results[2].jobs = <<>> THEN FALSE
       ELSE /\ JobKey(results[1].jobs[1]) = JobKey(results[2].jobs[1])
            /\ JobKey(results[1].jobs[1]) \in DOMAIN seen

DeletedInWindow(key) == WindowOpen(key) /\ key \notin DOMAIN seen

MaxRequests == 2

\* Companies the concurrent requests block
BlockPair == {S_Acme, S_StateStreet}

\* The list object a handler holds in blocked_companies: the default list
\* object itself when get_config_list fell back, else the list it parsed
ListHeld(h) == IF h.aliased THEN DEFAULT_BLOCKED_COMPANIES ELSE h.blocked_companies

\* blocked_companies = await get_blocked_companies(redis_client)
BlockRead(company) ==
    /\ Len(handlers) < MaxRequests
    /\ \A n \in DOMAIN handlers : handlers[n].company # company
    /\ LET stored == redisUp /\ config["blocked_companies"] # None
       IN handlers' = Append(handlers,
                             [company |-> company, stage |-> "read", aliased |-> ~stored,
                              blocked_companies |-> IF stored THEN get_blocked_companies
                                                    ELSE <<>>])
    /\ UNCHANGED <<now, cycle, loopVars, redisVars, DEFAULT_BLOCKED_COMPANIES, adminOps,
                   blocking, wsVars, authVars, proxyMalformed, sending, authTasks, reply, fetching, request,
                   windowEnd, configuredIn, telegram>>

\* if request.company not in blocked_companies: append, await set_config_list
BlockWrite(n) ==
    /\ n \in DOMAIN handlers
    /\ handlers[n].stage = "read"
    /\ LET h == handlers[n]
           held == ListHeld(h)
           appended == IF InList(held, h.company) THEN held ELSE Append(held, h.company)
       IN /\ DEFAULT_BLOCKED_COMPANIES' =
                IF h.aliased THEN appended ELSE DEFAULT_BLOCKED_COMPANIES
          /\ config' = IF InList(held, h.company) THEN config
                       ELSE SetConfigList(redisUp, config, "blocked_companies", appended).cfg
          /\ handlers' = [handlers EXCEPT ![n] =
                             [h EXCEPT !.stage = "written",
                                       !.blocked_companies =
                                           IF h.aliased THEN <<>> ELSE appended]]
    /\ UNCHANGED <<now, cycle, loopVars, redisUp, outages, seen, adminOps, blocking, wsVars,
                   authVars, proxyMalformed, sending, authTasks, reply, fetching, request, windowEnd, configuredIn,
                   telegram>>

\* the scan with its deletions, the COMPANY_BLOCKED broadcast and the return;
\* a Redis failure in the scan ends the request with HTTP 500
BlockRemove(n) ==
    /\ n \in DOMAIN handlers
    /\ handlers[n].stage = "written"
    /\ LET company == handlers[n].company
       IN IF redisUp
          THEN /\ seen' = Delete(seen, KeysOfCompany(seen, company))
               /\ active_connections' = Broadcast(active_connections, Failing).conns
               /\ delivered' = Broadcast(active_connections, Failing).sent
               /\ event' = Some(CompanyBlockedEvent(company,
                                    ExternalIds(seen, KeysOfCompany(seen, company))))
               /\ handlers' = [handlers EXCEPT ![n].stage = "done"]
          ELSE /\ UNCHANGED <<seen, active_connections, delivered, event>>
               /\ handlers' = [handlers EXCEPT ![n].stage = "failed"]
    /\ UNCHANGED <<now, cycle, loopVars, redisUp, outages, config, DEFAULT_BLOCKED_COMPANIES,
                   adminOps, blocking, socket, authVars, proxyMalformed, sending, authTasks, reply, fetching,
                   request, windowEnd, configuredIn, telegram>>

NextRequests ==
    \/ \E company \in BlockPair : BlockRead(company)
    \/ \E n \in 1..MaxRequests : BlockWrite(n)
    \/ \E n \in 1..MaxRequests : BlockRemove(n)
    \/ \E key \in CONFIG_KEYS : \E value \in ConfigChoices(key) : PutConfig(key, value)
    \/ RedisDown
    \/ RedisRecover

SpecRequests == InitRepeat /\ [][NextRequests]_vars

\* Every request has returned success
AllBlocked ==
    /\ Len(handlers) = MaxRequests
    /\ \A n \in DOMAIN handlers : handlers[n].stage = "done"

\* C37 (as stated): when two block-company requests for different companies
\* have both returned, with Redis reachable throughout and no replace request
\* in between, the blocked-companies list contains both companies.
C37_NoLostBlock ==
    AllBlocked /\ outages = 0 /\ adminOps = 0 =>
        \A n \in DOMAIN handlers : InList(get_blocked_companies, handlers[n].company)

\* ------------------------------------------------------------------------
\* ConnectionManager.broadcast send by send, with other subscribers coming
\* and going while a send is awaited
\* ------------------------------------------------------------------------
\* "for connection in self.active_connections": the list iterator fetches the
\* element at position k of the list as it is now, or ends the loop. initial
\* (the list when the broadcast began) and raised (a send of this broadcast
\* has raised) are kept for the properties.
NextSend(conns, k, initial, raised) ==
    IF k > Len(conns) THEN None
    ELSE Some([i |-> k, to |-> conns[k], initial |-> initial, raised |-> raised])

\* manager.broadcast is called: up to its first await of send_json
BeginBroadcast ==
    /\ pc = "broadcast"
    /\ sending = None
    /\ sending' = NextSend(active_connections, 1, active_connections, FALSE)
    /\ pc' = IF sending' = None THEN "telegram" ELSE "broadcast"
    /\ delivered' = <<>>
    /\ event' = Some(NewJobEvent(Get(cur).job))
    /\ trace' = Append(trace, "broadcast")
    /\ UNCHANGED <<now, cycle, target_keywords, calls, results, lists, cur, stats, batch,
                   faults, redisVars, DEFAULT_BLOCKED_COMPANIES, adminOps, blocking,
                   active_connections, socket, authVars, proxyMalformed, handlers, authTasks, reply,
                   fetching, request, windowEnd, configuredIn, telegram>>

\* The awaited send_json returns or raises (the except clause disconnects the
\* connection), and the loop goes on to the next position
SendReturn ==
    /\ sending # None
    /\ LET s == Get(sending)
           raised == socket[s.to] # "open"
           conns == IF raised THEN Disconnected(active_connections, s.to)
                    ELSE active_connections
       IN /\ active_connections' = conns
          /\ delivered' = IF raised THEN delivered ELSE Append(delivered, s.to)
          /\ sending' = NextSend(conns, s.i + 1, s.initial, s.raised \/ raised)
    /\ pc' = IF sending' = None THEN "telegram" ELSE pc
    /\ UNCHANGED <<now, cycle, target_keywords, calls, results, lists, cur, stats, batch,
                   faults, trace, redisVars, DEFAULT_BLOCKED_COMPANIES, adminOps, blocking,
                   socket, event, authVars, proxyMalformed, handlers, authTasks, reply, fetching, request,
                   windowEnd, configuredIn, telegram>>

NextSending ==
    \/ BeginBroadcast
    \/ SendReturn
    \/ \E w \in 1..MaxSubscribers : Connect(w)
    \/ \E w \in 1..MaxSubscribers : SocketBreak(w)
    \/ \E w \in 1..MaxSubscribers : Disconnect(w)

SpecSending == InitBroadcast /\ [][NextSending]_vars

\* Number of times w occurs in the list
Occurrences(list, w) == Cardinality({i \in DOMAIN list : list[i] = w})

\* No send of the broadcast that returns in this step has raised
ReturnsUnraised ==
    /\ sending # None
    /\ sending' = None
    /\ IF sending = None THEN FALSE
       ELSE ~Get(sending).raised /\ socket[Get(sending).to] = "open"

\* C38 (as stated): when a broadcast none of whose sends raised returns, every
\* subscriber that was connected when it began, is still connected and whose
\* socket is open has been sent the message exactly once, whatever connects
\* and disconnects of other subscribers happened while it awaited its sends.
C38_ExactlyOnce ==
    [][ReturnsUnraised =>
          \A w \in 1..MaxSubscribers :
              (/\ Occurrences(Get(sending).initial, w) = 1
               /\ Occurrences(active_connections', w) = 1
               /\ socket'[w] = "open")
              => Occurrences(delivered', w) = 1]_vars

\* The part of C38 that holds: no subscriber is sent the message twice
C38_AtMostOnce ==
    \A w \in 1..MaxSubscribers : Occurrences(delivered, w) <= 1

\* ------------------------------------------------------------------------
\* get_cookie_header and invalidate_cookies called concurrently
\* ------------------------------------------------------------------------
\* Tasks that call get_cookie_header
MaxTasks == 2

\* The clock of the model stops here (seconds)
MaxClock == 10800

\* "_cached_cookies and _cookie_expiry and now < _cookie_expiry"
CacheHit == cached_cookies # "" /\ cookie_expiry # None /\ now < Get(cookie_expiry)

\* Tasks inside login_and_get_cookies
LoggingIn == {l.task : l \in authTasks.logins}

\* Sensitivity variant of GetCookieHeader: the body runs without _auth_lock
GetCookieHeader_unlocked(c) ==
    /\ c \notin LoggingIn
    /\ IF JOBRIGHT_COOKIES # ""
       THEN authTasks' = [authTasks EXCEPT !.last = <<"manual", JOBRIGHT_COOKIES>>]
       ELSE IF CacheHit
            THEN authTasks' = [authTasks EXCEPT !.last = <<"cached", cached_cookies>>]
            ELSE authTasks' = [authTasks EXCEPT
                                  !.locked = TRUE,
                                  !.logins = @ \cup {[task |-> c, now |-> now]}]
    /\ UNCHANGED <<now, cycle, loopVars, redisVars, DEFAULT_BLOCKED_COMPANIES, adminOps,
                   blocking, wsVars, authVars, proxyMalformed, handlers, sending, reply,
                   fetching, request, windowEnd, configuredIn, telegram>>

\* get_cookie_header up to its return or to the await of login_and_get_cookies:
\* the cookies of the settings when set; else, with _auth_lock acquired, the
\* cached cookie when it is non-empty and not expired, else a login begins
GetCookieHeader(c) ==
    /\ c \notin LoggingIn
    /\ JOBRIGHT_COOKIES = "" => ~authTasks.locked
    /\ IF JOBRIGHT_COOKIES # ""
       THEN authTasks' = [authTasks EXCEPT !.last = <<"manual", JOBRIGHT_COOKIES>>]
       ELSE IF CacheHit
            THEN authTasks' = [authTasks EXCEPT !.last = <<"cached", cached_cookies>>]
            ELSE authTasks' = [authTasks EXCEPT
                                  !.locked = TRUE,
                                  !.logins = @ \cup {[task |-> c, now |-> now]}]
    /\ UNCHANGED <<now, cycle, loopVars, redisVars, DEFAULT_BLOCKED_COMPANIES, adminOps,
                   blocking, wsVars, authVars, proxyMalformed, handlers, sending, reply,
                   fetching, request, windowEnd, configuredIn, telegram>>

\* login_and_get_cookies returns the cookie string, "" when the login failed;
\* the expiry counts from the time read before the login
LoginReturn(c, cookie) ==
    /\ \E l \in authTasks.logins :
          /\ l.task = c
          /\ cached_cookies' = cookie
          /\ cookie_expiry' = Some(l.now + COOKIE_VALIDITY_HOURS * 3600)
          /\ authTasks' = [locked |-> FALSE, logins |-> authTasks.logins \ {l},
                           last |-> <<"login", cookie>>]
    /\ UNCHANGED <<now, cycle, loopVars, redisVars, DEFAULT_BLOCKED_COMPANIES, adminOps,
                   blocking, wsVars, JOBRIGHT_COOKIES, auth, proxyMalformed, handlers, sending,
                   reply, fetching, request, windowEnd, configuredIn, telegram>>

\* invalidate_cookies: with _auth_lock acquired, the cache is emptied
InvalidateCookies ==
    /\ ~authTasks.locked
    /\ cached_cookies' = ""
    /\ cookie_expiry' = None
    /\ UNCHANGED <<now, cycle, loopVars, redisVars, DEFAULT_BLOCKED_COMPANIES, adminOps,
                   blocking, wsVars, JOBRIGHT_COOKIES, auth, proxyMalformed, handlers, sending,
                   authTasks, reply, fetching, request, windowEnd, configuredIn, telegram>>

\* An hour passes
ClockTick ==
    /\ now < MaxClock
    /\ now' = now + 3600
    /\ UNCHANGED <<cycle, loopVars, redisVars, DEFAULT_BLOCKED_COMPANIES, adminOps,
                   blocking, wsVars, authVars, proxyMalformed, handlers, sending, authTasks,
                   reply, fetching, request, windowEnd, configuredIn, telegram>>

NextCookies ==
    \/ \E c \in 1..MaxTasks : GetCookieHeader(c)
    \/ \E c \in 1..MaxTasks, cookie \in {"", "cookie"} : LoginReturn(c, cookie)
    \/ InvalidateCookies
    \/ ClockTick

SpecCookies == InitAuth /\ [][NextCookies]_vars

\* C39: at most one login is in progress at any time; while the cached cookie
\* is non-empty and not expired no login begins; and what a call returns as a
\* cache hit is the cached cookie and is never empty, so the call after a
\* failed login logs in again.
C39_CookieCache ==
    /\ [](Cardinality(authTasks.logins) <= 1)
    /\ [][JOBRIGHT_COOKIES = "" /\ CacheHit =>
             authTasks'.logins \subseteq authTasks.logins]_vars
    /\ [][authTasks'.last # authTasks.last /\ authTasks'.last[1] = "cached" =>
             /\ CacheHit
             /\ authTasks'.last[2] = cached_cookies]_vars
    /\ [][JOBRIGHT_COOKIES = "" /\ ~CacheHit /\ authTasks' # authTasks
             /\ cached_cookies' = cached_cookies /\ cookie_expiry' = cookie_expiry
             /\ authTasks.logins = {} =>
             authTasks'.logins # {}]_vars

\* A login failed and stored the empty cookie with an expiry in the future;
\* the next call is logging in again
C39_Witness ==
    /\ cached_cookies = ""
    /\ cookie_expiry # None
    /\ (IF cookie_expiry = None THEN FALSE ELSE now < Get(cookie_expiry))
    /\ authTasks.logins # {}
    /\ authTasks.last = <<"login", "">>

\* ------------------------------------------------------------------------
\* The default lists
\* ------------------------------------------------------------------------
\* C40 (as stated): whatever reads, writes and block-company requests were
\* served, what get_config_list falls back to for the blocked companies when
\* Redis cannot be read is the list the module was loaded with.
C40_DefaultsNeverModified ==
    GetConfigList(FALSE, config, "blocked_companies", DEFAULT_BLOCKED_COMPANIES)
        = INITIAL_BLOCKED_COMPANIES

====
